---- MODULE Spec2Model ----
(***************************************************************************)
(* Model of the page-to-catalog extraction pipeline of meal_planner        *)
(* (src/recipe_cataloger.py, src/backend/llm.py).                          *)
(*                                                                         *)
(* The vision model is an external collaborator: every reply it can give   *)
(* is an input, drawn from bounded sets.  Python exceptions that escape a  *)
(* function are modelled by a "raised" flag in the function's result.      *)
(***************************************************************************)
EXTENDS Integers, Sequences, FiniteSets, TLC

VARIABLES
    pc,        \* which operation runs and where it stands
    reply,     \* classify_page: the model's reply to the classification prompt
    cls,       \* classify_page: the returned classification
    catalogFile, \* the catalog file: recipes, chapters, index and logs
    last,      \* the last cataloger command run on the catalog and its outcome
    prev,      \* the command before it
    nops,      \* the number of commands run on the catalog
    mode,      \* page scan: "folder" or "files"
    pil,       \* page scan: img_utils.PIL_AVAILABLE
    image_files, \* page scan: the model's answers for each image, in order
    page_no,   \* page scan: the number of loop iterations begun
    scan,      \* page scan: pending recipe, chapter, results, log, history
    call,      \* one function call: its arguments and environment
    ret        \* one function call: what it returned or raised, and its effects

clsVars == <<reply, cls>>
catVars == <<catalogFile, last, prev, nops>>
scanVars == <<mode, pil, image_files, page_no, scan>>
callVars == <<call, ret>>

vars == <<pc, clsVars, catVars, scanVars, callVars>>

(***************************************************************************)
(* Bounds of the model.                                                    *)
(***************************************************************************)
MaxReplyLen == 3   \* tokens in a classification reply
MaxOps == 2        \* cataloger commands run on one catalog
MaxNew == 1        \* recipes upserted by one command of a command sequence
MaxBatch == 3      \* recipes upserted by a single upsert call
MaxFolder == 2     \* recipes in a catalog written by folder processing
MaxPages == 2      \* images in one page scan

(***************************************************************************)
(* Model replies.  A reply is a sequence of tokens; a token is a piece of  *)
(* prose (one word), a Markdown fence, or the text of one JSON value.      *)
(* json.loads accepts a text exactly when it is one JSON value.            *)
(***************************************************************************)
Absent == "<absent>"      \* key missing from a JSON object / Python dict
Null   == "<null>"        \* JSON null / Python None

Tok(k, t, c) == [k |-> k, type |-> t, conf |-> c]

WordTokens ==
    { Tok("word", w, Absent) : w \in {"chapter", "Recipe", "article", "photo", "blah"} }

FenceTokens == { Tok("fence", Absent, Absent), Tok("fencejson", Absent, Absent) }

\* JSON objects, by the two keys classify_page's callers read.
ObjTokens ==
    { Tok("obj", "recipe", "high"),
      Tok("obj", "recipe_partial", Absent),
      Tok("obj", "chapter", "medium"),
      Tok("obj", Absent, "low"),
      Tok("obj", "dessert", "high"),
      Tok("obj", "photo", "certain"),
      Tok("obj", Null, Null) }

\* JSON values that are not objects: a non-empty array, a non-zero number, a
\* non-empty string, true; and the values Python treats as false
\* (null, false, 0, "", [], {}).
OtherJsonTokens ==
    { Tok(k, Absent, Absent) : k \in {"arr", "num", "str", "true", "falsy"} }

JsonTokens == ObjTokens \cup OtherJsonTokens

Tokens == WordTokens \cup FenceTokens \cup JsonTokens

IsJson(tok) == tok.k \in {"obj", "arr", "num", "str", "true", "falsy"}

IsFence(tok) == tok.k \in {"fence", "fencejson"}

\* No reply at all (analyze_image returned None) is NoReply; "" is <<>>.
NoReply == << Tok("none", Absent, Absent) >>

SeqsUpTo(S, n) == UNION { [1..m -> S] : m \in 0..n }

Replies == SeqsUpTo(Tokens, MaxReplyLen) \cup {NoReply}

(***************************************************************************)
(* parse_json_response (src/backend/llm.py)                                *)
(***************************************************************************)
\* Index of the first token of s at or after position from that satisfies
\* the test, or Len(s)+1.
RECURSIVE FirstFence(_, _, _)
FirstFence(s, from, jsonOnly) ==
    IF from > Len(s) THEN Len(s) + 1
    ELSE IF (IF jsonOnly THEN s[from].k = "fencejson" ELSE IsFence(s[from]))
         THEN from
         ELSE FirstFence(s, from + 1, jsonOnly)

\* The text json.loads is given: split("```json")[1].split("```")[0] when a
\* json fence is present, else split("```")[1] when any fence is present,
\* else the whole reply.
JsonStr(s) ==
    LET fj == FirstFence(s, 1, TRUE)
        f  == FirstFence(s, 1, FALSE)
    IN  IF fj <= Len(s)
        THEN SubSeq(s, fj + 1, FirstFence(s, fj + 1, FALSE) - 1)
        ELSE IF f <= Len(s)
             THEN SubSeq(s, f + 1, FirstFence(s, f + 1, FALSE) - 1)
             ELSE s

\* The parsed value (a JSON token), or NoParse for None.
NoParse == Tok("noparse", Absent, Absent)

parse_json_response(s) ==
    IF s = NoReply \/ s = <<>> THEN NoParse
    ELSE LET js == JsonStr(s)
         IN  IF Len(js) = 1 /\ IsJson(js[1]) THEN js[1] ELSE NoParse

\* Python truthiness of the parsed value ("if parsed:").  {} is among the
\* falsy values; every object token above has at least one key.
Truthy(v) == v.k \in {"obj", "arr", "num", "str", "true"}

(***************************************************************************)
(* classify_page (src/recipe_cataloger.py)                                 *)
(***************************************************************************)
PageTypes == {"chapter", "recipe", "recipe_partial", "article", "photo", "other"}
Confidences == {"high", "medium", "low"}

Lower(w) == IF w = "Recipe" THEN "recipe" ELSE w

\* "word in response.lower()": the raw text holds the word in a prose token
\* or inside the text of a JSON object's type value.
Contains(s, word) ==
    \E i \in 1..Len(s) :
        \/ s[i].k = "word" /\ Lower(s[i].type) = word
        \/ s[i].k = "obj" /\ s[i].type = word
        \/ s[i].k = "obj" /\ s[i].type = "recipe_partial" /\ word = "recipe"

FallbackTypeSwapped(s) ==
    IF Contains(s, "recipe") THEN "recipe"
    ELSE IF Contains(s, "chapter") THEN "chapter"
    ELSE IF Contains(s, "article") THEN "article"
    ELSE IF Contains(s, "photo") THEN "photo"
    ELSE "other"

FallbackType(s) ==
    IF Contains(s, "chapter") THEN "chapter"
    ELSE IF Contains(s, "recipe") THEN "recipe"
    ELSE IF Contains(s, "article") THEN "article"
    ELSE IF Contains(s, "photo") THEN "photo"
    ELSE "other"

Classification(t, c, r) == [type |-> t, confidence |-> c, raised |-> r]

DefaultClassification == Classification("other", "low", FALSE)

\* result.update(parsed): a dict overrides the keys it has; any other truthy
\* JSON value makes dict.update raise (TypeError / ValueError).
classify_page(s) ==
    IF s = NoReply \/ s = <<>> THEN DefaultClassification
    ELSE LET parsed == parse_json_response(s)
         IN  IF Truthy(parsed)
             THEN IF parsed.k = "obj"
                  THEN Classification(
                         IF parsed.type = Absent THEN "other" ELSE parsed.type,
                         IF parsed.conf = Absent THEN "low" ELSE parsed.conf,
                         FALSE)
                  ELSE Classification("other", "low", TRUE)
             ELSE Classification(FallbackType(s), "low", FALSE)

NoClassification == Classification(Absent, Absent, FALSE)

(***************************************************************************)
(* Recipe names.  A name is a sequence of characters, so that              *)
(* normalisation and similarity are computed, not assumed.  NullName is a  *)
(* JSON null name (Python None); the empty sequence is a missing or empty   *)
(* name (recipe.get("name", "")).                                          *)
(***************************************************************************)
NullName == << Null >>

UpperCase == {"P", "O", "A", "B", "C", "L", "V", "D"}
LowerCase == {"p", "o", "a", "b", "c", "m", "n", "x", "v", "i", "d", "l", "t", "r", "e", "g",
              "s"}
Spaces == {" "}

LowerChar(c) ==
    CASE c = "P" -> "p"
      [] c = "O" -> "o"
      [] c = "A" -> "a"
      [] c = "B" -> "b"
      [] c = "C" -> "c"
      [] c = "L" -> "l"
      [] c = "V" -> "v"
      [] c = "D" -> "d"
      [] OTHER -> c

\* \w of a regular expression after lower-casing; every other character
\* that is not white space is punctuation.
IsWordChar(c) == c \in LowerCase

IsSpace(c) == c \in Spaces

RECURSIVE MapLower(_)
MapLower(s) == IF s = <<>> THEN <<>> ELSE <<LowerChar(Head(s))>> \o MapLower(Tail(s))

RECURSIVE LStrip(_)
LStrip(s) == IF s # <<>> /\ IsSpace(Head(s)) THEN LStrip(Tail(s)) ELSE s

RECURSIVE RStrip(_)
RStrip(s) ==
    IF s # <<>> /\ IsSpace(s[Len(s)]) THEN RStrip(SubSeq(s, 1, Len(s) - 1)) ELSE s

Strip(s) == RStrip(LStrip(s))

\* re.sub(r'[^\w\s]', '', s)
RECURSIVE DropPunct(_)
DropPunct(s) ==
    IF s = <<>> THEN <<>>
    ELSE IF IsWordChar(Head(s)) \/ IsSpace(Head(s))
         THEN <<Head(s)>> \o DropPunct(Tail(s))
         ELSE DropPunct(Tail(s))

\* re.sub(r'\s+', ' ', s)
RECURSIVE Collapse(_)
Collapse(s) ==
    IF s = <<>> THEN <<>>
    ELSE IF IsSpace(Head(s))
         THEN <<" ">> \o Collapse(LStrip(Tail(s)))
         ELSE <<Head(s)>> \o Collapse(Tail(s))

normalize_recipe_name(name) == Collapse(DropPunct(Strip(MapLower(name))))

\* "n1 in n2" for strings.
IsSubstring(a, b) ==
    \E i \in 0..(Len(b) - Len(a)) : SubSeq(b, i + 1, i + Len(a)) = a

\* difflib.SequenceMatcher(None, a, b): find_longest_match gives the longest
\* common block, the earliest in a and then the earliest in b among the
\* longest; get_matching_blocks recurses to its left and to its right.
\* RunLength is the length of the common run starting at a[i] and b[j].
RECURSIVE RunLength(_, _, _, _)
RunLength(a, b, i, j) ==
    IF i <= Len(a) /\ j <= Len(b) /\ a[i] = b[j]
    THEN 1 + RunLength(a, b, i + 1, j + 1)
    ELSE 0

Blocks(a, b) ==
    { <<p[1], p[2], RunLength(a, b, p[1], p[2])>> :
        p \in { q \in (1..Len(a)) \X (1..Len(b)) : a[q[1]] = b[q[2]] } }

LongestMatch(a, b) ==
    CHOOSE t \in Blocks(a, b) :
        \A u \in Blocks(a, b) :
            \/ t[3] > u[3]
            \/ t[3] = u[3] /\ t[1] < u[1]
            \/ t[3] = u[3] /\ t[1] = u[1] /\ t[2] <= u[2]

RECURSIVE MatchedChars(_, _)
MatchedChars(a, b) ==
    IF Blocks(a, b) = {} THEN 0
    ELSE LET t == LongestMatch(a, b)
         IN  t[3]
             + MatchedChars(SubSeq(a, 1, t[1] - 1), SubSeq(b, 1, t[2] - 1))
             + MatchedChars(SubSeq(a, t[1] + t[3], Len(a)), SubSeq(b, t[2] + t[3], Len(b)))

\* The default threshold of fuzzy_match_names, in hundredths.
ThresholdPct == 85

\* A ratio that leaves out the doubling: M / T.
RatioOfTotal(a, b, pct) ==
    100 * MatchedChars(a, b) >= pct * (Len(a) + Len(b))

\* ratio() >= threshold, with ratio() = 2 * M / T.
RatioAtLeast(a, b, pct) ==
    200 * MatchedChars(a, b) >= pct * (Len(a) + Len(b))

\* fuzzy_match_names raises (AttributeError in normalize_recipe_name) when
\* given None.
FuzzyRaises(name1, name2) == name1 = NullName \/ name2 = NullName

fuzzy_match_names(name1, name2) ==
    LET n1 == normalize_recipe_name(name1)
        n2 == normalize_recipe_name(name2)
    IN  \/ n1 = n2
        \/ IsSubstring(n1, n2)
        \/ IsSubstring(n2, n1)
        \/ RatioAtLeast(n1, n2, ThresholdPct)

\* The names of the model: "Pan" and "paxn" are similar by ratio (6/7),
\* "Om paxn" contains "paxn" and "Om"; NoName is a missing or empty name.
Pan    == <<"P", "a", "n">>
Om     == <<"O", "m">>
Paxn   == <<"p", "a", "x", "n">>
OmPaxn == <<"O", "m", " ", "p", "a", "x", "n">>
NoName == <<>>

(***************************************************************************)
(* Recipes and chapters.  Of a recipe dict the model keeps the keys the    *)
(* pipeline and the upsert engine branch on: name, chapter, the ingredient  *)
(* and instruction lists (items are numbered), is_complete,                *)
(* is_continuation, dish_role, the names of the embedded sub_recipes, note  *)
(* and source_image.  Macros, times, tips and tags are not modelled.       *)
(***************************************************************************)
Rec(name, chapter, ings, steps, complete, cont, role, subs, note, src) ==
    [name |-> name, chapter |-> chapter, ings |-> ings, steps |-> steps,
     complete |-> complete, cont |-> cont, role |-> role, subs |-> subs,
     note |-> note, src |-> src]

\* A chapter dict: chapter_title and recipe_list.
Chap(title, list) == [title |-> title, list |-> list]

\* A test that lets the empty name through.
NameNotNull(name) == name # NullName

\* "if name:" for a name.
NameTruthy(name) == name # <<>> /\ name # NullName

\* str.lower() on the chapter titles of the model.
TitleLower(t) ==
    CASE t = "Unknown" -> "unknown"
      [] t = "Breakfast" -> "breakfast"
      [] OTHER -> t

\* "if title:" for a chapter title or a recipe's chapter.
TitleTruthy(t) == t \notin {Absent, Null, ""}

(***************************************************************************)
(* merge_recipes (src/recipe_cataloger.py)                                 *)
(***************************************************************************)
\* The list of recipe1 extended by the list of recipe2.
Extend(l1, l2) == IF l2 # <<>> THEN l1 \o l2 ELSE l1

merge_recipes_dropping(recipe1, recipe2) ==
    [recipe1 EXCEPT
        !.steps = Extend(recipe1.steps, recipe2.steps),
        !.subs = Extend(recipe1.subs, recipe2.subs),
        !.complete = recipe2.complete,
        !.cont = FALSE]

merge_recipes(recipe1, recipe2) ==
    [recipe1 EXCEPT
        !.ings = Extend(recipe1.ings, recipe2.ings),
        !.steps = Extend(recipe1.steps, recipe2.steps),
        !.subs = Extend(recipe1.subs, recipe2.subs),
        !.complete = recipe2.complete,
        !.cont = FALSE]

(***************************************************************************)
(* reassign_unknown_chapters (src/recipe_cataloger.py)                     *)
(***************************************************************************)
\* An insertion-ordered dict as a sequence of [key, val] pairs.
DictPut(d, key, val) ==
    IF \E i \in 1..Len(d) : d[i].key = key
    THEN [i \in 1..Len(d) |-> IF d[i].key = key THEN [key |-> key, val |-> val] ELSE d[i]]
    ELSE Append(d, [key |-> key, val |-> val])

DictHas(d, key) == \E i \in 1..Len(d) : d[i].key = key

DictGet(d, key) == (CHOOSE e \in {d[i] : i \in 1..Len(d)} : e.key = key).val

\* chapter.get("chapter_title", "Unknown")
TitleOrUnknown(chapter) == IF chapter.title = Absent THEN "Unknown" ELSE chapter.title

RECURSIVE ListedLookup(_, _, _)
ListedLookup(d, title, list) ==
    IF list = <<>> THEN d
    ELSE ListedLookup(DictPut(d, normalize_recipe_name(Head(list)), title), title, Tail(list))

RECURSIVE ChapterLookup(_, _)
ChapterLookup(d, chapters) ==
    IF chapters = <<>> THEN d
    ELSE ChapterLookup(ListedLookup(d, TitleOrUnknown(Head(chapters)), Head(chapters).list),
                       Tail(chapters))

\* "not current_chapter or current_chapter.lower() == 'unknown'"
NeedsChapter(recipe) ==
    ~TitleTruthy(recipe.chapter) \/ TitleLower(recipe.chapter) = "unknown"

\* The first entry of the lookup whose listed name matches, or 0.
FirstListedMatch(lookup, name) ==
    LET hits == { i \in 1..Len(lookup) : fuzzy_match_names(name, lookup[i].key) }
    IN  IF hits = {} THEN 0 ELSE CHOOSE i \in hits : \A j \in hits : i <= j

\* [recipes, reassigned, raised]
reassign_unknown_chapters(recipes, chapters) ==
    LET lookup == ChapterLookup(<<>>, chapters)
        hit(r) == IF NeedsChapter(r) THEN FirstListedMatch(lookup, r.name) ELSE 0
        raises == \E i \in 1..Len(recipes) :
                     NeedsChapter(recipes[i]) /\ recipes[i].name = NullName /\ lookup # <<>>
    IN  IF raises
        THEN [recipes |-> recipes, reassigned |-> 0, raised |-> TRUE]
        ELSE [recipes |-> [i \in 1..Len(recipes) |->
                             IF hit(recipes[i]) > 0
                             THEN [recipes[i] EXCEPT !.chapter = lookup[hit(recipes[i])].val]
                             ELSE recipes[i]],
              reassigned |-> Cardinality({ i \in 1..Len(recipes) : hit(recipes[i]) > 0 }),
              raised |-> FALSE]

(***************************************************************************)
(* build_recipe_index (src/recipe_cataloger.py).  Of the index the model   *)
(* keeps by_name, by_chapter, all_recipes and unmatched.                   *)
(***************************************************************************)
\* The value of a sequence-valued comprehension: the elements of s, in
\* order, that satisfy the test.
RECURSIVE NamedOf(_)
NamedOf(recipes) ==
    IF recipes = <<>> THEN <<>>
    ELSE IF NameTruthy(Head(recipes).name)
         THEN <<Head(recipes).name>> \o NamedOf(Tail(recipes))
         ELSE NamedOf(Tail(recipes))

\* recipe.get("chapter", "Unknown") and recipe.get("chapter")
ChapterKey(recipe) == IF recipe.chapter = Absent THEN "Unknown" ELSE recipe.chapter
ChapterOrNone(recipe) == IF recipe.chapter = Absent THEN Null ELSE recipe.chapter

LastIndexNamed(recipes, name) ==
    CHOOSE i \in 1..Len(recipes) :
        /\ recipes[i].name = name
        /\ \A j \in 1..Len(recipes) : recipes[j].name = name => j <= i

RECURSIVE NamesIn(_, _)
NamesIn(recipes, key) ==
    IF recipes = <<>> THEN <<>>
    ELSE IF NameTruthy(Head(recipes).name) /\ ChapterKey(Head(recipes)) = key
         THEN <<Head(recipes).name>> \o NamesIn(Tail(recipes), key)
         ELSE NamesIn(Tail(recipes), key)

\* The listed names of all chapters, in order, each with its chapter title.
RECURSIVE Listed(_)
Listed(chapters) ==
    IF chapters = <<>> THEN <<>>
    ELSE [i \in 1..Len(Head(chapters).list) |->
             [name |-> Head(chapters).list[i], chapter |-> TitleOrUnknown(Head(chapters))]]
         \o Listed(Tail(chapters))

\* The scan "for recipe in recipes: if fuzzy_match_names(listed, name): break"
\* : "matched", "unmatched", or "raised" when a None name is reached first.
RECURSIVE ScanRecipes(_, _)
ScanRecipes(listed_name, recipes) ==
    IF recipes = <<>> THEN "unmatched"
    ELSE IF FuzzyRaises(listed_name, Head(recipes).name) THEN "raised"
    ELSE IF fuzzy_match_names(listed_name, Head(recipes).name) THEN "matched"
    ELSE ScanRecipes(listed_name, Tail(recipes))

\* [unmatched, seen, raised] after the listed names from position i on.
RECURSIVE UnmatchedFrom(_, _, _, _)
UnmatchedFrom(acc, listed, i, recipes) ==
    IF i > Len(listed) \/ acc.raised THEN acc
    ELSE LET n == normalize_recipe_name(listed[i].name)
             found == ScanRecipes(listed[i].name, recipes)
         IN  IF n \in acc.seen THEN UnmatchedFrom(acc, listed, i + 1, recipes)
             ELSE IF found = "raised"
                  THEN [acc EXCEPT !.raised = TRUE]
             ELSE IF found = "unmatched"
                  THEN UnmatchedFrom(
                         [acc EXCEPT !.unmatched = Append(@, listed[i]),
                                     !.seen = @ \cup {n}],
                         listed, i + 1, recipes)
             ELSE UnmatchedFrom(acc, listed, i + 1, recipes)

NoIndex == [kind |-> "none"]

\* [index, raised]
build_recipe_index(recipes, chapters) ==
    LET names == { recipes[i].name : i \in { j \in 1..Len(recipes) : NameTruthy(recipes[j].name) } }
        keys  == { ChapterKey(recipes[i]) : i \in { j \in 1..Len(recipes) : NameTruthy(recipes[j].name) } }
        um    == UnmatchedFrom([unmatched |-> <<>>, seen |-> {}, raised |-> FALSE],
                               Listed(chapters), 1, recipes)
    IN  IF um.raised
        THEN [index |-> NoIndex, raised |-> TRUE]
        ELSE [index |->
                [kind |-> "full",
                 by_name |-> [n \in names |->
                                [recipe_index |-> LastIndexNamed(recipes, n) - 1,
                                 chapter |-> ChapterOrNone(recipes[LastIndexNamed(recipes, n)])]],
                 all_recipes |-> NamedOf(recipes),
                 by_chapter |-> [k \in keys |-> NamesIn(recipes, k)],
                 unmatched |-> um.unmatched],
              raised |-> FALSE]

(***************************************************************************)
(* upsert_recipes (src/recipe_cataloger.py)                                *)
(***************************************************************************)
\* existing_recipes: normalized name -> index (1-based here), for the
\* recipes that have a name.
RECURSIVE ExistingRecipes(_, _, _)
ExistingRecipes(d, recipes, i) ==
    IF i > Len(recipes) THEN d
    ELSE IF NameTruthy(recipes[i].name)
         THEN ExistingRecipes(DictPut(d, normalize_recipe_name(recipes[i].name), i), recipes, i + 1)
         ELSE ExistingRecipes(d, recipes, i + 1)

\* The first entry of existing_recipes whose catalog recipe matches the
\* incoming name, as an index into the catalog, or 0.
FuzzyIndex(existing, recipes, name) ==
    LET hits == { k \in 1..Len(existing) :
                    fuzzy_match_names(name, recipes[existing[k].val].name) }
    IN  IF hits = {} THEN 0
        ELSE existing[CHOOSE k \in hits : \A j \in hits : k <= j].val

ExactOnlyIndex(existing, recipes, name) ==
    IF DictHas(existing, normalize_recipe_name(name))
    THEN DictGet(existing, normalize_recipe_name(name))
    ELSE 0

MatchIndex(existing, recipes, name) ==
    IF DictHas(existing, normalize_recipe_name(name))
    THEN DictGet(existing, normalize_recipe_name(name))
    ELSE FuzzyIndex(existing, recipes, name)

\* A decision whose third case asks for one side with ingredients only and
\* the other with instructions only.
ShouldMergeOnlySides(old, new) ==
    LET oi == Len(old.ings)  os == Len(old.steps)
        ni == Len(new.ings)  ns == Len(new.steps)
    IN  \/ oi > 0 /\ os < 3 /\ ns > os
        \/ ni > 0 /\ ns < 3 /\ os > ns
        \/ oi > 0 /\ os = 0 /\ ni = 0 /\ ns > 0
        \/ ni > 0 /\ ns = 0 /\ oi = 0 /\ os > 0

\* The merge-or-replace decision on the counts of instructions and
\* ingredients of the existing (old) and incoming (new) recipe.
ShouldMerge(old, new) ==
    LET oi == Len(old.ings)  os == Len(old.steps)
        ni == Len(new.ings)  ns == Len(new.steps)
    IN  \/ oi > 0 /\ os < 3 /\ ns > os
        \/ ni > 0 /\ ns < 3 /\ os > ns
        \/ os > 0 /\ ns > 0 /\ oi > 0 /\ ni = 0
        \/ ns > 0 /\ os > 0 /\ ni > 0 /\ oi = 0

\* "source_image or recipe.get('source_image')"; None for a missing key.
OrNone(v) == IF v = Absent THEN Null ELSE v
LoggedSource(source_image, recipe) ==
    IF source_image \notin {Absent, Null, ""} THEN source_image ELSE OrNone(recipe.src)

LogEntry(action, recipe, source_image, previous) ==
    [action |-> action, recipe_name |-> recipe.name,
     source_image |-> LoggedSource(source_image, recipe), previous_source |-> previous]

\* One pass of "for recipe in new_recipes" over the state
\* [recipes, existing, log, added, updated, merged, at], where at lists the
\* catalog index each named incoming recipe landed on.
UpsertOne(st, recipe, source_image) ==
    IF ~NameTruthy(recipe.name) THEN st
    ELSE LET m == MatchIndex(st.existing, st.recipes, recipe.name)
         IN  IF m > 0
             THEN IF ShouldMerge(st.recipes[m], recipe)
                  THEN [st EXCEPT
                          !.recipes[m] = merge_recipes(st.recipes[m], recipe),
                          !.merged = @ + 1,
                          !.at = Append(@, m),
                          !.log = Append(@, LogEntry("merged", recipe, source_image,
                                                      OrNone(st.recipes[m].src)))]
                  ELSE [st EXCEPT
                          !.recipes[m] = recipe,
                          !.updated = @ + 1,
                          !.at = Append(@, m),
                          !.log = Append(@, LogEntry("updated", recipe, source_image,
                                                      OrNone(st.recipes[m].src)))]
             ELSE [st EXCEPT
                     !.recipes = Append(@, recipe),
                     !.existing = DictPut(@, normalize_recipe_name(recipe.name),
                                          Len(st.recipes) + 1),
                     !.added = @ + 1,
                     !.at = Append(@, Len(st.recipes) + 1),
                     !.log = Append(@, LogEntry("added", recipe, source_image, Absent))]

RECURSIVE UpsertAll(_, _, _)
UpsertAll(st, new_recipes, source_image) ==
    IF new_recipes = <<>> THEN st
    ELSE UpsertAll(UpsertOne(st, Head(new_recipes), source_image), Tail(new_recipes),
                   source_image)

\* existing_chapters: lower-cased title -> index, built before the loop and
\* not extended by it.
RECURSIVE ExistingChapters(_, _, _)
ExistingChapters(d, chapters, i) ==
    IF i > Len(chapters) THEN d
    ELSE IF TitleTruthy(chapters[i].title)
         THEN ExistingChapters(DictPut(d, TitleLower(chapters[i].title), i), chapters, i + 1)
         ELSE ExistingChapters(d, chapters, i + 1)

RECURSIVE UpsertChapters(_, _, _)
UpsertChapters(chapters, existing, new_chapters) ==
    IF new_chapters = <<>> THEN chapters
    ELSE LET c == Head(new_chapters)
         IN  IF ~TitleTruthy(c.title)
             THEN UpsertChapters(chapters, existing, Tail(new_chapters))
             ELSE IF DictHas(existing, TitleLower(c.title))
                  THEN UpsertChapters(
                         [chapters EXCEPT ![DictGet(existing, TitleLower(c.title))] = c],
                         existing, Tail(new_chapters))
                  ELSE UpsertChapters(Append(chapters, c), existing, Tail(new_chapters))

\* The catalog: recipes, chapters, index, upsert_log, deletion_log.
\* upsert_recipes returns [catalog, added, updated, merged, at, raised].
upsert_recipes(catalog, new_recipes, new_chapters, source_image) ==
    LET st0 == [recipes |-> catalog.recipes,
                existing |-> ExistingRecipes(<<>>, catalog.recipes, 1),
                log |-> catalog.upsert_log,
                added |-> 0, updated |-> 0, merged |-> 0, at |-> <<>>]
        st  == UpsertAll(st0, new_recipes, source_image)
        chs == UpsertChapters(catalog.chapters,
                              ExistingChapters(<<>>, catalog.chapters, 1), new_chapters)
        re  == reassign_unknown_chapters(st.recipes, chs)
        ix  == build_recipe_index(re.recipes, chs)
    IN  [catalog |-> [catalog EXCEPT !.recipes = re.recipes, !.chapters = chs,
                                     !.index = ix.index, !.upsert_log = st.log],
         added |-> st.added, updated |-> st.updated, merged |-> st.merged,
         at |-> st.at,
         raised |-> re.raised \/ ix.raised]

(***************************************************************************)
(* extract_recipes (src/recipe_cataloger.py).  The reply to an extraction  *)
(* prompt is a token sequence like the classification reply; its JSON      *)
(* object carries the "recipes" value: a list of fragments, or null.  A    *)
(* missing "recipes" key reads as the empty list.                          *)
(***************************************************************************)
RecipesTok(isNull, items) ==
    [k |-> "obj", type |-> Absent, conf |-> Absent,
     recipes |-> [null |-> isNull, items |-> items]]

\* A reading of the reply that lifts every embedded sub-recipe to a top-level
\* recipe with dish_role sub_recipe.
RECURSIVE Lifted(_)
Lifted(items) ==
    IF items = <<>> THEN <<>>
    ELSE <<Head(items)>>
         \o [k \in 1..Len(Head(items).subs) |->
               [Head(items) EXCEPT !.name = Head(items).subs[k], !.role = "sub_recipe",
                                   !.subs = <<>>]]
         \o Lifted(Tail(items))

RecipesOfLifting(parsed) ==
    IF "recipes" \in DOMAIN parsed
    THEN [null |-> parsed.recipes.null, items |-> Lifted(parsed.recipes.items)]
    ELSE [null |-> FALSE, items |-> <<>>]

\* parsed.get("recipes", [])
RecipesOf(parsed) ==
    IF "recipes" \in DOMAIN parsed THEN parsed.recipes ELSE [null |-> FALSE, items |-> <<>>]

\* Python None for a recipe (no pending recipe, no partial recipe) and for
\* the chapter context.
NoneRecipe == [kind |-> "none"]
NoChapter == [kind |-> "nochapter"]

NoContextNote == "Detected as continuation but no previous page context"

\* "if current_chapter: recipe['chapter'] = current_chapter.get('chapter_title')"
WithChapter(recipe, current_chapter) ==
    IF current_chapter = NoChapter THEN recipe
    ELSE [recipe EXCEPT !.chapter = OrNone(current_chapter.title)]

\* merge_recipes copies the pending dict shallowly and extends the lists in
\* place: the pending recipe's lists are the merged recipe's lists.
Aliased(pending, merged) ==
    [pending EXCEPT !.ings = merged.ings, !.steps = merged.steps, !.subs = merged.subs]

\* One pass of "for recipe in recipes" (lines 566-593) over
\* [complete_recipes, partial, pending]; an entry [r, alias] is a recipe and
\* whether its lists are the pending recipe's lists.
ProcessFragment(acc, fragment, current_chapter) ==
    LET recipe == WithChapter(fragment, current_chapter)
    IN  IF recipe.cont /\ acc.pending # NoneRecipe
        THEN LET merged == merge_recipes(acc.pending, recipe)
                 entry == [r |-> merged, alias |-> TRUE]
             IN  IF recipe.complete
                 THEN [acc EXCEPT !.complete_recipes = Append(@, entry),
                                  !.pending = Aliased(@, merged)]
                 ELSE [acc EXCEPT !.partial = entry, !.pending = Aliased(@, merged)]
        ELSE LET entry == [r |-> IF recipe.cont
                                 THEN [recipe EXCEPT !.note = NoContextNote, !.cont = FALSE]
                                 ELSE recipe,
                           alias |-> FALSE]
             IN  IF recipe.complete
                 THEN [acc EXCEPT !.complete_recipes = Append(@, entry)]
                 ELSE [acc EXCEPT !.partial = entry]

RECURSIVE ProcessFragments(_, _, _)
ProcessFragments(acc, recipes, current_chapter) ==
    IF recipes = <<>> THEN acc
    ELSE ProcessFragments(ProcessFragment(acc, Head(recipes), current_chapter),
                          Tail(recipes), current_chapter)

NoEntry == [r |-> NoneRecipe, alias |-> FALSE]

\* One prompt attempt (lines 550-618) on the state
\* [recipes, partial_recipe, pending, attempts, returned, raised].
AttemptStep(st, response, attempt, current_chapter, expected_count) ==
    LET parsed == parse_json_response(response)
        recipes == RecipesOf(parsed)
        current_count == Len(st.recipes)
        acc == ProcessFragments(
                 [complete_recipes |-> <<>>, partial |-> NoEntry, pending |-> st.pending],
                 recipes.items, current_chapter)
        found_count == Len(acc.complete_recipes) + (IF acc.partial # NoEntry THEN 1 ELSE 0)
        tried == [st EXCEPT !.attempts = @ + 1]
    IN  IF ~Truthy(parsed) THEN tried
        ELSE IF parsed.k # "obj" \/ recipes.null THEN [tried EXCEPT !.raised = TRUE]
        ELSE IF ~(Len(recipes.items) > current_count \/ current_count = 0) THEN tried
        ELSE [tried EXCEPT
                !.recipes = IF acc.complete_recipes # <<>> \/ acc.partial # NoEntry \/ attempt = 0
                            THEN acc.complete_recipes ELSE @,
                !.partial_recipe = IF acc.complete_recipes # <<>> \/ acc.partial # NoEntry
                                      \/ attempt = 0
                                   THEN acc.partial ELSE @,
                !.pending = acc.pending,
                !.returned = IF expected_count > 0
                             THEN found_count >= expected_count
                             ELSE Len(acc.complete_recipes) >= 3]

\* "for attempt, prompt in enumerate(prompts[:max_retries + 1])"; responses[k]
\* is the model's reply to attempt k - 1.
RECURSIVE Attempts(_, _, _, _, _)
Attempts(st, responses, attempt, current_chapter, expected_count) ==
    IF attempt >= Len(responses) \/ st.returned \/ st.raised THEN st
    ELSE Attempts(AttemptStep(st, responses[attempt + 1], attempt, current_chapter,
                              expected_count),
                  responses, attempt + 1, current_chapter, expected_count)

\* The attempt on the contrast-enhanced image (lines 620-691), made when
\* the loop ended with no complete recipe: every fragment of the reply is
\* taken as a complete recipe.
EnhancedStep(st, response, current_chapter, PIL_AVAILABLE) ==
    LET parsed == parse_json_response(response)
        recipes == RecipesOf(parsed)
        tried == [st EXCEPT !.attempts = @ + 1]
    IN  IF st.returned \/ st.raised \/ st.recipes # <<>> \/ ~PIL_AVAILABLE THEN st
        ELSE IF ~Truthy(parsed) THEN tried
        ELSE IF parsed.k # "obj" THEN [tried EXCEPT !.raised = TRUE]
        ELSE IF recipes.null \/ recipes.items = <<>> THEN tried
        ELSE [tried EXCEPT
                !.recipes = [i \in 1..Len(recipes.items) |->
                               [r |-> WithChapter(recipes.items[i], current_chapter),
                                alias |-> FALSE]],
                !.partial_recipe = NoEntry]

\* The recipe of an entry as the caller sees it after the call.
Shared(entry, pending) ==
    IF entry.alias THEN Aliased(entry.r, pending) ELSE entry.r

\* What the caller gets: best_result, and the pending recipe object as the
\* merges left it.
Returned(st) ==
    [recipes |-> [i \in 1..Len(st.recipes) |-> Shared(st.recipes[i], st.pending)],
     partial_recipe |-> IF st.partial_recipe = NoEntry THEN NoneRecipe
                        ELSE Shared(st.partial_recipe, st.pending),
     pending |-> st.pending,
     attempts |-> st.attempts,
     raised |-> st.raised]

\* extract_recipes: responses are the replies to the prompts tried, enhanced
\* the reply on the enhanced image.
extract_recipes(responses, enhanced, current_chapter, pending_recipe, PIL_AVAILABLE,
                expected_count) ==
    Returned(
        EnhancedStep(
            Attempts([recipes |-> <<>>, partial_recipe |-> NoEntry,
                      pending |-> pending_recipe,
                      attempts |-> 0, returned |-> FALSE, raised |-> FALSE],
                     responses, 0, current_chapter, expected_count),
            enhanced, current_chapter, PIL_AVAILABLE))

(***************************************************************************)
(* extract_chapter_info and extract_partial_recipe                         *)
(***************************************************************************)
ChapterTok(title, list) ==
    [k |-> "obj", type |-> Absent, conf |-> Absent, title |-> title, list |-> list]

\* [chapter, raised]: the parsed object; the placeholder with null title when
\* the reply does not parse; {"error": ...} (no title key) when there is no
\* reply.  A parsed value that is not an object is returned as it is, and
\* the caller's chapter_info[...] / chapter_info.get raises.
extract_chapter_info(response) ==
    LET parsed == parse_json_response(response)
    IN  IF response = NoReply \/ response = <<>>
        THEN [chapter |-> Chap(Absent, <<>>), raised |-> FALSE]
        ELSE IF ~Truthy(parsed) THEN [chapter |-> Chap(Null, <<>>), raised |-> FALSE]
        ELSE IF parsed.k # "obj" THEN [chapter |-> NoChapter, raised |-> TRUE]
        ELSE IF "title" \in DOMAIN parsed
             THEN [chapter |-> Chap(parsed.title, parsed.list), raised |-> FALSE]
             ELSE [chapter |-> Chap(Absent, <<>>), raised |-> FALSE]

MoreTok(additional_ingredients, additional_instructions, is_complete) ==
    [k |-> "obj", type |-> Absent, conf |-> Absent,
     additional_ingredients |-> additional_ingredients,
     additional_instructions |-> additional_instructions,
     is_complete |-> is_complete]

\* [recipe, raised]: the pending recipe itself, extended in place.
extract_partial_recipe(response, pending_recipe) ==
    LET parsed == parse_json_response(response)
    IN  IF ~Truthy(parsed) THEN [recipe |-> pending_recipe, raised |-> FALSE]
        ELSE IF parsed.k # "obj" THEN [recipe |-> pending_recipe, raised |-> TRUE]
        ELSE IF "is_complete" \in DOMAIN parsed
             THEN [recipe |-> [pending_recipe EXCEPT
                                 !.ings = Extend(@, parsed.additional_ingredients),
                                 !.steps = Extend(@, parsed.additional_instructions),
                                 !.complete = parsed.is_complete],
                   raised |-> FALSE]
             ELSE [recipe |-> [pending_recipe EXCEPT !.complete = TRUE], raised |-> FALSE]

(***************************************************************************)
(* Pages.  The model's answers for one image: the classification reply     *)
(* with its recipe_names_visible count and has_recipe_continuation flag,   *)
(* the reply to the extraction (or chapter) prompts, and the reply to the  *)
(* continuation prompt.  The model gives the same reply on every attempt.  *)
(***************************************************************************)
Page(classification, visible, cont, ext, more) ==
    [cls |-> classification, visible |-> visible, has_recipe_continuation |-> cont,
     ext |-> ext, more |-> more]

Vin == <<"v", "i", "n">>
Dip == <<"d", "i", "p">>

\* Page A of a two-page recipe, its continuation B, a continuation that is
\* itself cut off, a whole recipe, a salad with an embedded vinaigrette, a
\* dip the model tags as a component, and a recipe with a null name.
FragA   == Rec(Pan, Absent, <<1>>, <<1, 2>>, FALSE, FALSE, "main", <<>>, Absent, Absent)
FragB   == Rec(NoName, Absent, <<>>, <<3, 4>>, TRUE, TRUE, "main", <<>>, Absent, Absent)
FragBi  == Rec(NoName, Absent, <<>>, <<3>>, FALSE, TRUE, "main", <<>>, Absent, Absent)
FragOm  == Rec(Om, Absent, <<1>>, <<1, 2, 3>>, TRUE, FALSE, "side", <<>>, Absent, Absent)
FragSalad == Rec(Paxn, Absent, <<1>>, <<1>>, TRUE, FALSE, "main", <<Vin>>, Absent, Absent)
FragDip == Rec(Dip, Absent, <<1>>, <<1>>, TRUE, FALSE, "sub_recipe", <<>>, Absent, Absent)
FragNull == Rec(NullName, Absent, <<1>>, <<1>>, TRUE, FALSE, "main", <<>>, Absent, Absent)

IsRecipe == << Tok("obj", "recipe", "high") >>
IsPartial == << Tok("obj", "recipe_partial", Absent) >>
NoMore == << Tok("falsy", Absent, Absent) >>

Yields(fragments) == << RecipesTok(FALSE, fragments) >>

PagePool ==
    { Page(IsRecipe, 1, FALSE, Yields(<<FragA>>), NoMore),
      Page(IsRecipe, 0, FALSE, Yields(<<FragA>>), NoMore),
      Page(IsPartial, 0, TRUE, Yields(<<FragB>>), << MoreTok(<<>>, <<3, 4>>, TRUE) >>),
      Page(IsPartial, 0, TRUE, Yields(<<FragBi>>), << MoreTok(<<>>, <<3>>, FALSE) >>),
      Page(IsRecipe, 1, FALSE, Yields(<<FragOm>>), NoMore),
      Page(IsRecipe, 1, FALSE, Yields(<<FragSalad, FragDip>>), NoMore),
      Page(IsRecipe, 1, FALSE, Yields(<<FragNull>>), NoMore),
      Page(<< Tok("obj", "chapter", "medium") >>, 0, FALSE,
           << ChapterTok("Breakfast", <<Pan, Om>>) >>, NoMore),
      Page(<< Tok("word", "chapter", Absent) >>, 0, FALSE, << Tok("arr", Absent, Absent) >>, NoMore),
      Page(<< Tok("obj", "photo", "certain") >>, 0, FALSE, NoReply, NoMore),
      Page(<< Tok("word", "Recipe", Absent) >>, 0, FALSE, NoReply, NoReply),
      Page(IsRecipe, 1, FALSE, << RecipesTok(TRUE, <<>>) >>, NoMore),
      Page(<< Tok("arr", Absent, Absent) >>, 0, FALSE, NoReply, NoMore) }

(***************************************************************************)
(* The sequential page scan: process_cookbook_folder and                   *)
(* process_multiple_files.  A scan state is [pending_recipe,               *)
(* current_chapter, recipes, chapters, processing_log, hist, raised];      *)
(* hist records the recipes that became pending, the continuation          *)
(* fragments the extractor was given with no pending recipe and the        *)
(* top-level fragments it was given.                                       *)
(***************************************************************************)
max_retries == 2
NumPrompts == 3

\* prompts[:max_retries + 1], each answered with the page's reply.
Responses(page) ==
    [k \in 1..(IF max_retries + 1 < NumPrompts THEN max_retries + 1 ELSE NumPrompts) |->
        page.ext]

\* Keys of the classification dict: the defaults unless the reply parsed to
\* an object.  has_recipe_start is not among the keys the replies carry.
ClassifiedObject(page) == parse_json_response(page.cls).k = "obj"
ExpectedCount(page) == IF ClassifiedObject(page) THEN page.visible ELSE 0
HasContinuation(page) == ClassifiedObject(page) /\ page.has_recipe_continuation

\* The top-level fragments of the page's extraction reply.
FedBy(page) ==
    IF Len(page.ext) = 1 /\ "recipes" \in DOMAIN page.ext[1] /\ ~page.ext[1].recipes.null
    THEN { page.ext[1].recipes.items[i] : i \in 1..Len(page.ext[1].recipes.items) }
    ELSE {}

Record(hist, page, pending_recipe) ==
    [hist EXCEPT !.fed = @ \cup FedBy(page),
                 !.orphans = @ \cup (IF pending_recipe = NoneRecipe
                                     THEN { f \in FedBy(page) : f.cont } ELSE {})]

Pend(s, recipe) ==
    [s EXCEPT !.pending_recipe = recipe, !.hist.pended = @ \cup {recipe}]

Stamp(recipe, file) == [recipe EXCEPT !.src = file]

\* has_name and has_ingredients and has_instructions
LooksComplete(recipe) ==
    NameTruthy(recipe.name) /\ Len(recipe.ings) > 0 /\ Len(recipe.steps) > 0

PageLog(file, page_type) == [file |-> file, page_type |-> page_type]

\* The chapter branch of both loops.
ChapterStep(s, file, page, page_type) ==
    LET chapter_info == extract_chapter_info(page.ext)
    IN  IF chapter_info.raised THEN [s EXCEPT !.raised = TRUE]
        ELSE [s EXCEPT !.chapters = Append(@, chapter_info.chapter),
                       !.current_chapter = chapter_info.chapter,
                       !.processing_log = Append(@, PageLog(file, page_type))]

\* ', '.join(recipe_names) over the names of the completed recipes (line
\* 1455): str.join raises TypeError on a None name.
Joinable(recipes) == \A i \in 1..Len(recipes) : recipes[i].name # NullName

\* One iteration of the loop of process_cookbook_folder (lines 1377-1478).
\* classification is classify_page's value for the page and result
\* extract_recipes's, read only on a recipe page.
FolderStep(s, file, page, classification, result) ==
    LET page_type == classification.type
        new_partial == Stamp(result.partial_recipe, file)
        s1 == [s EXCEPT
                 !.recipes = @ \o [i \in 1..Len(result.recipes) |->
                                     Stamp(result.recipes[i], file)],
                 !.pending_recipe = result.pending,
                 !.hist = Record(@, page, s.pending_recipe),
                 !.processing_log = Append(@, PageLog(file, page_type))]
    IN  IF classification.raised THEN [s EXCEPT !.raised = TRUE]
        ELSE IF page_type = "chapter" THEN ChapterStep(s, file, page, page_type)
        ELSE IF page_type \notin {"recipe", "recipe_partial"}
        THEN [s EXCEPT !.processing_log = Append(@, PageLog(file, page_type))]
        ELSE IF result.raised \/ ~Joinable(result.recipes) THEN [s EXCEPT !.raised = TRUE]
        ELSE IF result.partial_recipe # NoneRecipe
        THEN IF LooksComplete(new_partial) /\ new_partial.cont
                /\ result.pending = NoneRecipe
             THEN [s1 EXCEPT
                     !.recipes = Append(@, [new_partial EXCEPT
                         !.note = "Was marked as continuation but no previous context - saved as complete",
                         !.cont = FALSE, !.complete = TRUE]),
                     !.pending_recipe = NoneRecipe]
             ELSE Pend(s1, new_partial)
        ELSE IF result.pending # NoneRecipe /\ result.recipes # <<>>
        THEN [s1 EXCEPT !.pending_recipe = NoneRecipe]
        ELSE s1

\* After the loop of process_cookbook_folder (lines 1480-1488): a recipe
\* still pending is output flagged incomplete; then the index is built.
FolderEnd(s) ==
    LET recipes == IF s.pending_recipe = NoneRecipe THEN s.recipes
                   ELSE Append(s.recipes,
                               [s.pending_recipe EXCEPT
                                  !.complete = FALSE,
                                  !.note = "Recipe may be incomplete - continued beyond processed pages"])
    IN  [s EXCEPT !.recipes = recipes,
                  !.raised = build_recipe_index(recipes, s.chapters).raised]

\* "if current_chapter: recipe['chapter'] = current_chapter.get('chapter_title', '')"
InChapter(recipe, current_chapter) ==
    IF current_chapter = NoChapter THEN recipe
    ELSE [recipe EXCEPT !.chapter = IF current_chapter.title = Absent THEN ""
                                    ELSE current_chapter.title]

\* One iteration of the loop of process_multiple_files (lines 1811-1969).
\* classification is classify_page's value for the page; completed is
\* extract_partial_recipe's and extraction extract_recipes's, each read
\* only on the branch that calls it.
FilesStep(s, file, page, classification, completed, extraction) ==
    LET page_type == classification.type
        has_new_recipe == ExpectedCount(page) > 0
        logged == [s EXCEPT !.processing_log = Append(@, PageLog(file, page_type))]
        new_partial == Stamp(extraction.partial_recipe, file)
        s1 == [logged EXCEPT
                 !.recipes = @ \o [i \in 1..Len(extraction.recipes) |->
                                     InChapter(Stamp(extraction.recipes[i], file),
                                               s.current_chapter)],
                 !.pending_recipe = NoneRecipe,
                 !.hist = Record(@, page, s.pending_recipe)]
    IN  IF classification.raised THEN [s EXCEPT !.raised = TRUE]
        ELSE IF page_type = "chapter" THEN ChapterStep(s, file, page, page_type)
        ELSE IF page_type \notin {"recipe", "recipe_partial"} THEN logged
        ELSE IF s.pending_recipe # NoneRecipe
                /\ (page_type = "recipe_partial" \/ (HasContinuation(page) /\ ~has_new_recipe))
        THEN IF completed.raised THEN [s EXCEPT !.raised = TRUE]
             ELSE IF completed.recipe.complete
             THEN [logged EXCEPT
                     !.recipes = Append(@, InChapter(Stamp(completed.recipe, file),
                                                     s.current_chapter)),
                     !.pending_recipe = NoneRecipe]
             ELSE Pend(logged, completed.recipe)
        ELSE IF extraction.raised THEN [s EXCEPT !.raised = TRUE]
        ELSE IF extraction.partial_recipe = NoneRecipe THEN s1
        ELSE IF LooksComplete(new_partial)
        THEN [s1 EXCEPT
                !.recipes = Append(@, InChapter(
                    [new_partial EXCEPT
                       !.note = IF new_partial.cont /\ extraction.pending = NoneRecipe
                                THEN "Was marked as continuation but no previous context"
                                ELSE @,
                       !.complete = TRUE],
                    s.current_chapter))]
        ELSE Pend(s1, new_partial)

\* After the loop of process_multiple_files (lines 1971-1984): a recipe
\* still pending is output only when it has a name, ingredients and
\* instructions.
FilesEnd(s) ==
    IF s.pending_recipe # NoneRecipe /\ LooksComplete(s.pending_recipe)
    THEN [s EXCEPT !.recipes = Append(@, [s.pending_recipe EXCEPT
                                            !.note = "Final partial saved as complete",
                                            !.complete = TRUE])]
    ELSE s

\* The name of the i-th image file.
FileName(i) == ToString(i)

\* The scan state before the first image.
ScanStart ==
    [pending_recipe |-> NoneRecipe, current_chapter |-> NoChapter,
     recipes |-> <<>>, chapters |-> <<>>, processing_log |-> <<>>,
     hist |-> [pended |-> {}, orphans |-> {}, fed |-> {}],
     raised |-> FALSE]

\* No page scan is running.
NoScan ==
    /\ mode = "none"
    /\ pil = FALSE
    /\ image_files = <<>>
    /\ page_no = 0
    /\ scan = ScanStart

\* No single function call is being checked.
NoCall ==
    /\ call = <<>>
    /\ ret = <<>>

(***************************************************************************)
(* The catalog file and the cataloger commands that rewrite it (main).    *)
(***************************************************************************)
\* The catalog main creates for --append-to when the file does not exist.
FreshCatalog ==
    [recipes |-> <<>>, chapters |-> <<>>, index |-> NoIndex,
     upsert_log |-> <<>>, deletion_log |-> <<>>]

RPan    == Rec(Pan, Absent, <<1>>, <<1, 2>>, TRUE, FALSE, "main", <<>>, Absent, "p1")
ROm     == Rec(Om, "Unknown", <<1>>, <<1, 2, 3>>, TRUE, FALSE, "main", <<>>, Absent, "p2")
RPaxn   == Rec(Paxn, "Breakfast", <<1, 2>>, <<1, 2, 3>>, TRUE, FALSE, "main", <<>>, Absent, "p3")
ROmPaxn == Rec(OmPaxn, Absent, <<1>>, <<1, 2, 3>>, TRUE, FALSE, "side", <<>>, Absent, Absent)
RNoName == Rec(NoName, Absent, <<>>, <<3, 4>>, TRUE, FALSE, "main", <<>>, Absent, "p4")
RNull   == Rec(NullName, Absent, <<1>>, <<1>>, TRUE, FALSE, "main", <<>>, Absent, "p5")

\* Recipes a page can yield: named, unnamed (a page without a title) and
\* with a null name.
UpsertPool == {RPan, ROm, RPaxn, ROmPaxn, RNoName}
FolderPool == {RPan, ROm, RNoName, RNull}

ChBreakfast == Chap("Breakfast", <<Pan, Om>>)
ChapterInputs == { <<>>, <<ChBreakfast>> }

NonEmptySeqsUpTo(S, n) == UNION { [1..m -> S] : m \in 1..n }

\* A command on the catalog and its outcome.
Cmd(op, new, res, nBefore, logBefore, ords, confirm) ==
    [op |-> op, new |-> new, at |-> res.at, raised |-> res.raised,
     added |-> res.added, updated |-> res.updated, merged |-> res.merged,
     nBefore |-> nBefore, logBefore |-> logBefore, ords |-> ords, confirm |-> confirm]

NoResult == [at |-> <<>>, raised |-> FALSE, added |-> 0, updated |-> 0, merged |-> 0]
Raised == [NoResult EXCEPT !.raised = TRUE]

NoCmd == Cmd("none", <<>>, NoResult, 0, 0, <<>>, "")

\* A catalog written by process_cookbook_folder: it is saved only when
\* build_recipe_index returned.
FolderCatalogs ==
    { [FreshCatalog EXCEPT !.recipes = rs, !.chapters = cs,
                           !.index = build_recipe_index(rs, cs).index] :
        <<rs, cs>> \in { x \in SeqsUpTo(FolderPool, MaxFolder) \X ChapterInputs :
                           ~build_recipe_index(x[1], x[2]).raised } }

InitCatalog ==
    /\ pc = "catalog"
    /\ reply = <<>>
    /\ cls = NoClassification
    /\ catalogFile \in FolderCatalogs \cup {FreshCatalog}
    /\ last = NoCmd
    /\ prev = NoCmd
    /\ nops = 0
    /\ NoScan
    /\ NoCall

\* main, -f ... --append-to (source_image names the files) and folder
\* --append-to (no source_image): load, upsert_recipes, save.  An exception
\* leaves the file as it was.
UpsertFrom(pool, maxLen, maxOps) ==
    /\ pc = "catalog"
    /\ nops < maxOps
    /\ \E new \in NonEmptySeqsUpTo(pool, maxLen), chs \in ChapterInputs,
          source_image \in {Absent, "files"} :
          \E res \in {upsert_recipes(catalogFile, new, chs, source_image)} :
              /\ catalogFile' = IF res.raised THEN catalogFile ELSE res.catalog
              /\ last' = Cmd("upsert", new, res, Len(catalogFile.recipes),
                             Len(catalogFile.upsert_log), <<>>, "")
    /\ prev' = last
    /\ nops' = nops + 1
    /\ UNCHANGED <<pc, clsVars, scanVars, callVars>>

UpsertCmd(maxLen, maxOps) == UpsertFrom(UpsertPool, maxLen, maxOps)

\* main, --list / -l: reassign_unknown_chapters; the index is rebuilt and the
\* file saved only when some recipe was reassigned.
ListCmd ==
    /\ pc = "catalog"
    /\ nops < MaxOps
    /\ \E re \in {reassign_unknown_chapters(catalogFile.recipes, catalogFile.chapters)} :
       \E ix \in {build_recipe_index(re.recipes, catalogFile.chapters)} :
       \E bad \in {re.raised \/ (re.reassigned > 0 /\ ix.raised)} :
           /\ catalogFile' = IF bad \/ re.reassigned = 0 THEN catalogFile
                         ELSE [catalogFile EXCEPT !.recipes = re.recipes, !.index = ix.index]
           /\ last' = Cmd("list", <<>>, IF bad THEN Raised ELSE NoResult,
                          Len(catalogFile.recipes), Len(catalogFile.upsert_log), <<>>, "")
    /\ prev' = last
    /\ nops' = nops + 1
    /\ UNCHANGED <<pc, clsVars, scanVars, callVars>>

\* sorted(..., reverse=True) of the 0-indexed numbers, kept 1-based here.
RECURSIVE SortDescending(_)
SortDescending(ns) ==
    IF ns = <<>> THEN <<>>
    ELSE LET k == CHOOSE i \in 1..Len(ns) : \A j \in 1..Len(ns) : ns[i] >= ns[j]
         IN  <<ns[k]>> \o SortDescending(SubSeq(ns, 1, k - 1) \o SubSeq(ns, k + 1, Len(ns)))

RemoveAt(l, i) == SubSeq(l, 1, i - 1) \o SubSeq(l, i + 1, Len(l))

\* "for idx in indices_to_delete: ... del recipes[idx]"; an index past the
\* end of the shrunken list raises IndexError.
RECURSIVE DeleteAll(_, _, _)
DeleteAll(recipes, indices_to_delete, deleted_names) ==
    IF indices_to_delete = <<>>
    THEN [recipes |-> recipes, deleted |-> deleted_names, raised |-> FALSE]
    ELSE LET idx == Head(indices_to_delete)
         IN  IF idx > Len(recipes)
             THEN [recipes |-> recipes, deleted |-> deleted_names, raised |-> TRUE]
             ELSE DeleteAll(RemoveAt(recipes, idx), Tail(indices_to_delete),
                            Append(deleted_names, recipes[idx].name))

\* {r.get("name", ""): i for i, r in enumerate(recipes)}
RECURSIVE RecipesByName(_, _, _)
RecipesByName(d, recipes, i) ==
    IF i > Len(recipes) THEN d
    ELSE RecipesByName(DictPut(d, recipes[i].name, i), recipes, i + 1)

\* The index --delete stores: recipe names and a count.
SimpleIndex(recipes) ==
    [kind |-> "simple", recipes_by_name |-> RecipesByName(<<>>, recipes, 1),
     total_recipes |-> Len(recipes)]

Ordinals == 1..(MaxFolder + 1)

\* main, --delete N [N ...]: validate the numbers, confirm, delete from the
\* end, log, replace the index if there is one, save.
DeleteCmd ==
    /\ pc = "catalog"
    /\ nops < MaxOps
    /\ \E ords \in NonEmptySeqsUpTo(Ordinals, 2), confirm \in {"y", "n"} :
          \E recipes \in {catalogFile.recipes} :
          \E invalid \in {\E i \in 1..Len(ords) : ords[i] > Len(recipes)} :
          \E del \in {DeleteAll(recipes, SortDescending(ords), <<>>)} :
          \E done \in {~invalid /\ confirm = "y" /\ ~del.raised} :
              /\ catalogFile' =
                    IF done
                    THEN [catalogFile EXCEPT
                            !.recipes = del.recipes,
                            !.deletion_log = Append(@, del.deleted),
                            !.index = IF @ = NoIndex THEN @ ELSE SimpleIndex(del.recipes)]
                    ELSE catalogFile
              /\ last' = Cmd(IF done THEN "delete" ELSE "nodelete", <<>>,
                             IF ~invalid /\ confirm = "y" /\ del.raised
                             THEN Raised ELSE NoResult,
                             Len(recipes), Len(catalogFile.upsert_log), ords, confirm)
    /\ prev' = last
    /\ nops' = nops + 1
    /\ UNCHANGED <<pc, clsVars, scanVars, callVars>>

\* Sequences of cataloger commands on one catalog file.
Upsert == UpsertCmd(MaxNew, MaxOps)

NextCatalog == Upsert \/ ListCmd \/ DeleteCmd

SpecCatalog == InitCatalog /\ [][NextCatalog]_vars

\* One upsert_recipes call with a longer list of new recipes.
UpsertBatch == UpsertCmd(MaxBatch, 1)

NextUpsert == UpsertBatch

SpecUpsert == InitCatalog /\ [][NextUpsert]_vars

\* Upserts of pages whose title the model read as punctuation only ("!"),
\* next to a named and an untitled recipe, and --list.
Bang == <<"!">>
RBang == Rec(Bang, Absent, <<7>>, <<7>>, TRUE, FALSE, "main", <<>>, Absent, "p6")

UpsertPunct == UpsertFrom({RBang, RPan, RNoName}, MaxNew, MaxOps)

NextNames == UpsertPunct \/ ListCmd

SpecNames == InitCatalog /\ [][NextNames]_vars

(***************************************************************************)
(* The same recipe upserted twice (a re-run with --append-to): the stored  *)
(* recipe has oi ingredients and os instructions, the incoming one ni and  *)
(* ns, each between 0 and MaxCount.                                        *)
(***************************************************************************)
MaxCount == 3

\* The items first+1 .. first+n of a list.
Numbered(first, n) == [i \in 1..n |-> first + i]

Counted(name, ni, ns, first, src) ==
    Rec(name, Absent, Numbered(first, ni), Numbered(first, ns), TRUE, FALSE, "main",
        <<>>, Absent, src)

InitReupsert ==
    /\ pc = "catalog"
    /\ reply = <<>>
    /\ cls = NoClassification
    /\ catalogFile \in {FreshCatalog} \cup
          { [FreshCatalog EXCEPT
                !.recipes = <<Counted(Pan, oi, os, 0, "p1")>>,
                !.index = build_recipe_index(<<Counted(Pan, oi, os, 0, "p1")>>, <<>>).index] :
              oi \in 0..MaxCount, os \in 0..MaxCount }
    /\ last = NoCmd
    /\ prev = NoCmd
    /\ nops = 0
    /\ NoScan
    /\ NoCall

\* load, upsert_recipes(catalog, new), save.
UpsertThe(new) ==
    /\ \E res \in {upsert_recipes(catalogFile, new, <<>>, Absent)} :
          /\ catalogFile' = IF res.raised THEN catalogFile ELSE res.catalog
          /\ last' = Cmd("upsert", new, res, Len(catalogFile.recipes),
                         Len(catalogFile.upsert_log), <<>>, "")
    /\ prev' = last
    /\ nops' = nops + 1
    /\ UNCHANGED <<pc, clsVars, scanVars, callVars>>

\* The first run extracts the recipe R and upserts it.
FirstUpsert ==
    /\ pc = "catalog"
    /\ nops = 0
    /\ \E name \in {Pan, Paxn}, ni \in 0..MaxCount, ns \in 0..MaxCount :
          UpsertThe(<<Counted(name, ni, ns, 10, "p9")>>)

\* The second run extracts the identical R and upserts it again.
Reupsert ==
    /\ pc = "catalog"
    /\ nops = 1
    /\ UpsertThe(last.new)

NextReupsert == FirstUpsert \/ Reupsert

SpecReupsert == InitReupsert /\ [][NextReupsert]_vars

(***************************************************************************)
(* One call of extract_recipes, attempt by attempt.  call holds the        *)
(* arguments and what the model answers to each prompt and on the          *)
(* enhanced image; ret is the loop's state: best_result, the number of     *)
(* analyze_image calls made, whether the loop returned early or raised.    *)
(***************************************************************************)
MaxRetries == 3

\* What the gateway can answer: None (a failure or timeout), a null list, no
\* recipe, complete (FragOm) and cut-off (FragA) recipes.
ExtractionReplies ==
    { NoReply, << RecipesTok(TRUE, <<>>) >>, Yields(<<>>), Yields(<<FragOm>>),
      Yields(<<FragOm, FragA>>), Yields(<<FragA, FragA>>),
      Yields(<<FragOm, FragOm, FragOm>>) }

\* Every prompt of the list, whatever max_retries.
AllPrompts(c) == NumPrompts

\* len(prompts[:max_retries + 1])
PromptsTried(c) ==
    IF c.max_retries + 1 < NumPrompts THEN c.max_retries + 1 ELSE NumPrompts

InitExtract ==
    /\ pc = "extract"
    /\ call \in [max_retries : 0..MaxRetries,
                 responses : [1..NumPrompts -> ExtractionReplies],
                 enhanced : {NoReply, Yields(<<FragOm>>), Yields(<<FragA>>)},
                 PIL_AVAILABLE : BOOLEAN,
                 expected_count : {0, 2}]
    /\ ~call.PIL_AVAILABLE => call.enhanced = NoReply
    /\ ret = [recipes |-> <<>>, partial_recipe |-> NoEntry, pending |-> NoneRecipe,
              attempts |-> 0, returned |-> FALSE, raised |-> FALSE]
    /\ reply = <<>>
    /\ cls = NoClassification
    /\ catalogFile = FreshCatalog
    /\ last = NoCmd
    /\ prev = NoCmd
    /\ nops = 0
    /\ NoScan

\* One pass of the loop over the prompts.
TryPrompt ==
    /\ pc = "extract"
    /\ ~ret.returned /\ ~ret.raised
    /\ ret.attempts < PromptsTried(call)
    /\ ret' = AttemptStep(ret, call.responses[ret.attempts + 1], ret.attempts, NoChapter,
                          call.expected_count)
    /\ UNCHANGED <<pc, call, clsVars, catVars, scanVars>>

\* After the loop: the attempt on the enhanced image, if it is made, and
\* the return.
TryEnhanced ==
    /\ pc = "extract"
    /\ ret.returned \/ ret.raised \/ ret.attempts >= PromptsTried(call)
    /\ ret' = EnhancedStep(ret, call.enhanced, NoChapter, call.PIL_AVAILABLE)
    /\ pc' = "extracted"
    /\ UNCHANGED <<call, clsVars, catVars, scanVars>>

NextExtract == TryPrompt \/ TryEnhanced

SpecExtract == InitExtract /\ [][NextExtract]_vars

\* The function runs to its end once called.
SpecExtractFair == SpecExtract /\ WF_vars(NextExtract)

(***************************************************************************)
(* One call of fuzzy_match_names(name1, name2) with the default threshold. *)
(* The names are the three of the design's boundary example and every      *)
(* string of up to MaxNameLen characters over two letters in both cases,   *)
(* the hyphen and the space.                                               *)
(***************************************************************************)
MaxNameLen == 3

CilantroLimeVinaigrette ==
    <<"C", "i", "l", "a", "n", "t", "r", "o", " ", "L", "i", "m", "e", " ",
      "V", "i", "n", "a", "i", "g", "r", "e", "t", "t", "e">>
cilantro_lime_vinaigrette ==
    <<"c", "i", "l", "a", "n", "t", "r", "o", "-", "l", "i", "m", "e", " ",
      "v", "i", "n", "a", "i", "g", "r", "e", "t", "t", "e">>
LimeCilantroDressing ==
    <<"L", "i", "m", "e", " ", "C", "i", "l", "a", "n", "t", "r", "o", " ",
      "D", "r", "e", "s", "s", "i", "n", "g">>

ShortNames == SeqsUpTo({"B", "b", "a", "-", " "}, MaxNameLen)

InitFuzzy ==
    /\ pc = "fuzzy"
    /\ call \in [name1 : {CilantroLimeVinaigrette}, 
                 name2 : {cilantro_lime_vinaigrette, LimeCilantroDressing}]
                \cup [name1 : ShortNames, name2 : ShortNames]
    /\ ret = <<>>
    /\ reply = <<>>
    /\ cls = NoClassification
    /\ catalogFile = FreshCatalog
    /\ last = NoCmd
    /\ prev = NoCmd
    /\ nops = 0
    /\ NoScan

FuzzyMatch ==
    /\ pc = "fuzzy"
    /\ pc' = "matched"
    /\ ret' = [match |-> fuzzy_match_names(call.name1, call.name2)]
    /\ UNCHANGED <<call, clsVars, catVars, scanVars>>

SpecFuzzy == InitFuzzy /\ [][FuzzyMatch]_vars

(***************************************************************************)
(* One call of extract_recipes on a page that follows a cut-off recipe:    *)
(* call holds the pending recipe passed in, the replies to the prompts     *)
(* tried and expected_count; ret is what the caller has after the call -   *)
(* the result and the pending recipe object as the call left it.           *)
(***************************************************************************)
MaxAttempts == 2

\* The pending recipe of page p1, and a dip cut off at the page's end.
PendingPan == [FragA EXCEPT !.src = "p1"]
FragDipCut == [FragDip EXCEPT !.complete = FALSE]

ContinuationReplies ==
    { NoReply, Yields(<<FragB>>), Yields(<<FragBi>>), Yields(<<FragOm>>),
      Yields(<<FragOm, FragBi>>), Yields(<<FragBi, FragB>>),
      Yields(<<FragA, FragDipCut>>) }

InitPending ==
    /\ pc = "page"
    /\ \E n \in 1..MaxAttempts :
          call \in [pending_recipe : {NoneRecipe, PendingPan},
                    responses : [1..n -> ContinuationReplies],
                    expected_count : 0..1]
    /\ ret = <<>>
    /\ reply = <<>>
    /\ cls = NoClassification
    /\ catalogFile = FreshCatalog
    /\ last = NoCmd
    /\ prev = NoCmd
    /\ nops = 0
    /\ NoScan

\* result = extract_recipes(image, model, chapter, pending_recipe,
\* max_retries, ...) with max_retries + 1 = len(responses), no PIL.
ExtractPage ==
    /\ pc = "page"
    /\ ret' = extract_recipes(call.responses, NoReply, NoChapter, call.pending_recipe,
                              FALSE, call.expected_count)
    /\ pc' = "returned"
    /\ UNCHANGED <<call, clsVars, catVars, scanVars>>

SpecPending == InitPending /\ [][ExtractPage]_vars

(***************************************************************************)
(* page_analyzer: the analysis of a catalog's processing log and the       *)
(* reprocessing of the pages it flags.  An entry of the log is read for    *)
(* its file, its page_type, whether its text mentions "error", the         *)
(* classification's type (set or not), confidence, number of               *)
(* recipe_names_visible and has_recipe_start, the names in                 *)
(* recipes_extracted, has_continuation and the status.                     *)
(***************************************************************************)
MaxLog == 2
MaxRuns == 2

Entry(page_type, mentions_error, typed, confidence, names_visible, has_recipe_start, recipes_extracted, has_continuation, status) ==
    [page_type |-> page_type, mentions_error |-> mentions_error, typed |-> typed,
     confidence |-> confidence, names_visible |-> names_visible,
     has_recipe_start |-> has_recipe_start, recipes_extracted |-> recipes_extracted,
     has_continuation |-> has_continuation, status |-> status]

\* The entries process_cookbook_folder writes (lines 1388-1478): recipe
\* pages with what was extracted, pages of type "other", skipped articles.
LoggedPages ==
    { Entry(t, FALSE, TRUE, c, n, n > 0, x, h, "") :
        t \in {"recipe", "recipe_partial"}, c \in {"high", "low"}, n \in 0..1,
        x \in {<<>>, <<"none">>, <<"R">>}, h \in BOOLEAN }
    \cup { Entry("recipe", TRUE, TRUE, "high", n, n > 0, <<"R">>, FALSE, "") : n \in 0..1 }
    \cup { Entry("other", FALSE, typed, c, n, b, <<>>, FALSE, "skipped") :
             typed \in BOOLEAN, c \in {"high", "low"}, n \in 0..1, b \in BOOLEAN }
    \cup { Entry("article", FALSE, TRUE, c, 0, FALSE, <<>>, FALSE, "skipped - article") :
             c \in {"high", "low"} }

\* The entry main appends after a single-file run with --append-to (lines
\* 2411-2421): the file and a timestamp, every other key at its default.
AppendedEntry(file) ==
    [file |-> file] @@ Entry("unknown", FALSE, FALSE, "unknown", 0, FALSE, <<>>, FALSE, "")

NoAnalysis ==
    [failed_files |-> <<>>, partial_only |-> <<>>, low_confidence |-> <<>>,
     skipped_files |-> <<>>]

\* "file_info in failed_files": the lists hold the file_info objects, one
\* per entry of the log; here they hold the entries' files.
InList(file, list) == \E i \in 1..Len(list) : list[i] = file

\* "r and r != 'none'"
IsExtracted(r) == r # "none"

\* One pass of the loop of analyze_catalog_for_failures (lines 457-520).
AnalyzeEntry(acc, entry) ==
    LET file == entry.file
        Failed(a) == [a EXCEPT !.failed_files = Append(@, file)]
        none_extracted == entry.recipes_extracted \in {<<>>, <<"none">>}
        expected == entry.names_visible
        actual == Len(SelectSeq(entry.recipes_extracted, IsExtracted))
        checked ==
            IF entry.mentions_error \/ entry.page_type = "other"
            THEN IF entry.names_visible > 0 \/ entry.has_recipe_start THEN Failed(acc)
                 ELSE IF entry.confidence = "low" /\ ~entry.typed THEN Failed(acc)
                 ELSE acc
            ELSE IF entry.page_type \in {"recipe", "recipe_partial"}
            THEN LET none == IF ~none_extracted THEN acc
                             ELSE IF entry.has_continuation
                             THEN [acc EXCEPT !.partial_only = Append(@, file)]
                             ELSE Failed(acc)
                 IN  IF expected > 0 /\ actual < expected /\ ~InList(file, none.failed_files)
                     THEN Failed(none)
                     ELSE none
            ELSE IF entry.status # ""
            THEN [acc EXCEPT !.skipped_files = Append(@, file)]
            ELSE acc
    IN  IF entry.confidence = "low" /\ ~InList(file, checked.failed_files)
        THEN [checked EXCEPT !.low_confidence = Append(@, file)]
        ELSE checked

RECURSIVE AnalyzeLog(_, _)
AnalyzeLog(acc, processing_log) ==
    IF processing_log = <<>> THEN acc
    ELSE AnalyzeLog(AnalyzeEntry(acc, Head(processing_log)), Tail(processing_log))

analyze_catalog_for_failures(processing_log) == AnalyzeLog(NoAnalysis, processing_log)

\* The head of reprocess_failed_files (lines 628-641): existing_files is
\* computed once, before the low-confidence pages are added.
FilesToReprocess(analysis, include_low_confidence) ==
    LET files_to_reprocess == analysis.failed_files \o analysis.partial_only
        NotThere(file) == ~InList(file, files_to_reprocess)
    IN  IF include_low_confidence
        THEN files_to_reprocess \o SelectSeq(analysis.low_confidence, NotThere)
        ELSE files_to_reprocess

\* What a run of "recipe_cataloger.py -f <file> --append-to <catalog>" does
\* to the catalog: recipes or chapters found and upserted, and the entry
\* appended to the log; or the catalog left as it is (nothing found, a
\* non-zero exit, a timeout, the file not found).
Outcomes == {"upserted", "unchanged"}

RECURSIVE Reprocessed(_, _, _)
Reprocessed(processing_log, files, outcome) ==
    IF files = <<>> THEN processing_log
    ELSE Reprocessed(IF Head(outcome) = "upserted"
                     THEN Append(processing_log, AppendedEntry(Head(files)))
                     ELSE processing_log,
                     Tail(files), Tail(outcome))

InitAnalyze ==
    /\ pc = "analyze"
    /\ call \in [include_low_confidence : BOOLEAN]
    /\ \E n \in 0..MaxLog : \E pages \in [1..n -> LoggedPages] :
          ret = [processing_log |-> [i \in 1..n |-> [file |-> FileName(i)] @@ pages[i]],
                 analysis |-> NoAnalysis,
                 files_to_reprocess |-> <<>>,
                 outcome |-> <<>>,
                 runs |-> 0]
    /\ reply = <<>>
    /\ cls = NoClassification
    /\ catalogFile = FreshCatalog
    /\ last = NoCmd
    /\ prev = NoCmd
    /\ nops = 0
    /\ NoScan

\* page_analyzer --analyze-catalog --dry-run: the analysis and the list of
\* files, no command run.
DryRun ==
    /\ pc = "analyze"
    /\ ret.runs < MaxRuns
    /\ \E analysis \in {analyze_catalog_for_failures(ret.processing_log)} :
       \E files \in {FilesToReprocess(analysis, call.include_low_confidence)} :
          ret' = [ret EXCEPT !.analysis = analysis,
                             !.files_to_reprocess = files,
                             !.outcome = [i \in 1..Len(files) |-> "unchanged"],
                             !.runs = @ + 1]
    /\ UNCHANGED <<pc, call, clsVars, catVars, scanVars>>

\* page_analyzer --analyze-catalog --reprocess: the analysis, then one run
\* of the cataloger per file of the list, in order.
Reprocess ==
    /\ pc = "analyze"
    /\ ret.runs < MaxRuns
    /\ \E analysis \in {analyze_catalog_for_failures(ret.processing_log)} :
       \E files \in {FilesToReprocess(analysis, call.include_low_confidence)} :
       \E outcome \in [1..Len(files) -> Outcomes] :
          ret' = [processing_log |-> Reprocessed(ret.processing_log, files, outcome),
                  analysis |-> analysis,
                  files_to_reprocess |-> files,
                  outcome |-> outcome,
                  runs |-> ret.runs + 1]
    /\ UNCHANGED <<pc, call, clsVars, catVars, scanVars>>

NextAnalyze == DryRun \/ Reprocess

SpecAnalyze == InitAnalyze /\ [][NextAnalyze]_vars

(***************************************************************************)
(* Merging a continuation into the pending recipe, with the fields the     *)
(* page scan does not branch on: a recipe here is [r, tips, serves,        *)
(* nutrition_full], r being the recipe as above, tips a list and the two   *)
(* scalars None, the empty string or a text.  merge_recipes is given the   *)
(* continuation as a fragment of an extraction reply,                      *)
(* extract_partial_recipe as the reply to the continuation prompt.         *)
(***************************************************************************)
\* "if recipe2.get(key) and not merged.get(key): merged[key] = recipe2[key]"
ScalarTruthy(v) == v \notin {Absent, Null, ""}

merge_scalar(v1, v2) == IF ScalarTruthy(v2) /\ ~ScalarTruthy(v1) THEN v2 ELSE v1

\* merge_recipes on the wider recipe (lines 700-733).
merge_recipes_full(recipe1, recipe2) ==
    [r |-> merge_recipes(recipe1.r, recipe2.r),
     tips |-> Extend(recipe1.tips, recipe2.tips),
     serves |-> merge_scalar(recipe1.serves, recipe2.serves),
     nutrition_full |-> merge_scalar(recipe1.nutrition_full, recipe2.nutrition_full)]

\* extract_partial_recipe on the wider recipe (lines 770-794): the reply
\* has additional_tips and nutrition_per_serving beside the keys of MoreTok.
extract_partial_recipe_full(pending_recipe, parsed) ==
    [r |-> extract_partial_recipe(
              << MoreTok(parsed.r.ings, parsed.r.steps, parsed.r.complete) >>,
              pending_recipe.r).recipe,
     tips |-> Extend(pending_recipe.tips, parsed.tips),
     serves |-> pending_recipe.serves,
     nutrition_full |-> IF ScalarTruthy(parsed.nutrition_full)
                        THEN parsed.nutrition_full
                        ELSE pending_recipe.nutrition_full]

InitContinue ==
    /\ pc = "continue"
    /\ call \in
         [path : {"merge_recipes", "extract_partial_recipe"},
          pending_recipe :
             [r : { Rec(Pan, Absent, ings, steps, FALSE, FALSE, "main", <<>>, Absent, "p1") :
                      ings \in {<<>>, <<1>>}, steps \in {<<>>, <<1, 2>>} },
              tips : {<<>>, <<1>>},
              serves : {Null, "", "4"},
              nutrition_full : {Null, "", "100 cal"}],
          continuation :
             [r : { Rec(name, Absent, ings, steps, complete, TRUE, "main", <<>>, Absent, Absent) :
                      name \in {NoName, Om}, ings \in {<<>>, <<5>>},
                      steps \in {<<>>, <<3, 4>>}, complete \in BOOLEAN },
              tips : {<<>>, <<2>>},
              serves : {Null, "6"},
              nutrition_full : {Null, "250 cal"}]]
    /\ call.path = "extract_partial_recipe" =>
          call.continuation.r.name = NoName /\ call.continuation.serves = Null
    /\ ret = <<>>
    /\ reply = <<>>
    /\ cls = NoClassification
    /\ catalogFile = FreshCatalog
    /\ last = NoCmd
    /\ prev = NoCmd
    /\ nops = 0
    /\ NoScan

\* extract_recipes, line 575: merged = merge_recipes(pending_recipe, recipe)
MergeFragment ==
    /\ pc = "continue"
    /\ call.path = "merge_recipes"
    /\ ret' = merge_recipes_full(call.pending_recipe, call.continuation)
    /\ pc' = "continued"
    /\ UNCHANGED <<call, clsVars, catVars, scanVars>>

\* process_multiple_files, line 1863: extract_partial_recipe(..., pending_recipe)
ExtractPartial ==
    /\ pc = "continue"
    /\ call.path = "extract_partial_recipe"
    /\ ret' = extract_partial_recipe_full(call.pending_recipe, call.continuation)
    /\ pc' = "continued"
    /\ UNCHANGED <<call, clsVars, catVars, scanVars>>

NextContinue == MergeFragment \/ ExtractPartial

SpecContinue == InitContinue /\ [][NextContinue]_vars

(***************************************************************************)
(* Specification of the page scan.                                         *)
(***************************************************************************)
InitScan ==
    /\ mode \in {"folder", "files"}
    /\ pc = mode
    /\ pil \in BOOLEAN
    /\ image_files \in UNION { [1..n -> PagePool] : n \in 1..MaxPages }
    /\ page_no = 0
    /\ scan = ScanStart
    /\ reply = <<>>
    /\ cls = NoClassification
    /\ catalogFile = FreshCatalog
    /\ last = NoCmd
    /\ prev = NoCmd
    /\ nops = 0
    /\ NoCall

\* process_cookbook_folder: the next image.
FolderPage ==
    /\ pc = "folder"
    /\ page_no < Len(image_files)
    /\ \E page \in {image_files[page_no + 1]} :
       \E classification \in {classify_page(page.cls)} :
       \E result \in {extract_recipes(Responses(page), page.ext, scan.current_chapter,
                                      scan.pending_recipe, pil, ExpectedCount(page))} :
       \E s \in {FolderStep(scan, FileName(page_no + 1), page, classification, result)} :
          /\ scan' = s
          /\ pc' = IF s.raised THEN "raised" ELSE pc
    /\ page_no' = page_no + 1
    /\ UNCHANGED <<clsVars, catVars, callVars, mode, pil, image_files>>

\* process_cookbook_folder: after the last image.
FolderFinish ==
    /\ pc = "folder"
    /\ page_no = Len(image_files)
    /\ \E s \in {FolderEnd(scan)} :
          /\ scan' = s
          /\ pc' = IF s.raised THEN "raised" ELSE "done"
    /\ UNCHANGED <<clsVars, catVars, callVars, mode, pil, image_files, page_no>>

\* process_multiple_files: the next image.
FilesPage ==
    /\ pc = "files"
    /\ page_no < Len(image_files)
    /\ \E page \in {image_files[page_no + 1]} :
       \E classification \in {classify_page(page.cls)} :
       \E completed \in {IF scan.pending_recipe = NoneRecipe
                         THEN [recipe |-> NoneRecipe, raised |-> FALSE]
                         ELSE extract_partial_recipe(page.more, scan.pending_recipe)} :
       \E extraction \in {extract_recipes(Responses(page), page.ext, scan.current_chapter,
                                          scan.pending_recipe, pil, ExpectedCount(page))} :
       \E s \in {FilesStep(scan, FileName(page_no + 1), page, classification, completed, extraction)} :
          /\ scan' = s
          /\ pc' = IF s.raised THEN "raised" ELSE pc
    /\ page_no' = page_no + 1
    /\ UNCHANGED <<clsVars, catVars, callVars, mode, pil, image_files>>

\* process_multiple_files: after the last image.
FilesFinish ==
    /\ pc = "files"
    /\ page_no = Len(image_files)
    /\ scan' = FilesEnd(scan)
    /\ pc' = "done"
    /\ UNCHANGED <<clsVars, catVars, callVars, mode, pil, image_files, page_no>>

NextScan == FolderPage \/ FolderFinish \/ FilesPage \/ FilesFinish

SpecScan == InitScan /\ [][NextScan]_vars

(***************************************************************************)
(* The model gateway: analyze_image (src/recipe_cataloger.py) with         *)
(* query_claude and query_ollama (src/backend/llm.py).  A call is          *)
(* [is_claude, api_key, env_key, exists, readable, file_size,              *)
(* backup_model, transport]: whether the model name is a hosted one,       *)
(* whether an API key was passed and whether config.ANTHROPIC_API_KEY is   *)
(* set, whether the image file exists and can be read, its size in bytes,  *)
(* whether a backup model is configured, and what the HTTP request does.   *)
(***************************************************************************)
max_size == 5 * 1024 * 1024

\* What requests.post and the reading of the response can do: raise
\* ConnectionError or Timeout, answer 404, 500 or 201, answer 200 with a body
\* that is not JSON, with a JSON body without the text, or with the text.
Transports ==
    {"conn_error", "timeout", "http_404", "http_500", "http_201",
     "ok_bad_body", "ok_no_text", "ok"}

\* The text of a decoded response body.
BodyText(transport) == IF transport = "ok_no_text" THEN "" ELSE "text"

\* query_ollama: every exception of the request is caught; raise_for_status
\* raises on 4xx and 5xx only.
query_ollama(transport) ==
    IF transport \in {"conn_error", "timeout", "http_404", "http_500", "ok_bad_body"}
    THEN Null
    ELSE BodyText(transport)

\* A query_claude that does not look at the status code.
query_claude_any_status(api_key, env_key, transport) ==
    IF ~(api_key \/ env_key) THEN Null
    ELSE IF transport \in {"conn_error", "timeout", "ok_bad_body"} THEN Null
    ELSE BodyText(transport)

\* query_claude: no key, a status other than 200 and every exception give
\* None.
query_claude(api_key, env_key, transport) ==
    IF ~(api_key \/ env_key) THEN Null
    ELSE IF transport \in {"conn_error", "timeout"} THEN Null
    ELSE IF transport \in {"http_404", "http_500", "http_201"} THEN Null
    ELSE IF transport = "ok_bad_body" THEN Null
    ELSE BodyText(transport)

\* int(file_size * 4 / 3)
estimated_base64_size(file_size) == (file_size * 4) \div 3

\* [value, raised, calls]: the returned text or None, whether an exception
\* left analyze_image, and the backends that were sent the request, in
\* order.  os.path.getsize is outside every try; encode_image_to_base64 is
\* inside one.
analyze_image(c) ==
    LET none == [value |-> Null, raised |-> FALSE, calls |-> <<>>]
    IN  IF c.is_claude
        THEN IF ~c.api_key THEN none
             ELSE IF ~c.exists THEN [none EXCEPT !.raised = TRUE]
             ELSE IF estimated_base64_size(c.file_size) >= max_size
             THEN IF c.backup_model
                  THEN IF ~c.readable THEN none
                       ELSE [value |-> query_ollama(c.transport), raised |-> FALSE,
                             calls |-> <<"backup">>]
                  ELSE none
             ELSE IF ~c.readable THEN none
             ELSE [value |-> query_claude(c.api_key, c.env_key, c.transport),
                   raised |-> FALSE, calls |-> <<"claude">>]
        ELSE IF ~(c.exists /\ c.readable) THEN none
             ELSE [value |-> query_ollama(c.transport), raised |-> FALSE,
                   calls |-> <<"ollama">>]

\* File sizes around the size whose estimate is the cap.
FileSizes ==
    LET at_cap == (max_size * 3) \div 4
    IN  {1, at_cap - 2, at_cap - 1, at_cap, at_cap + 1, 2 * at_cap}

\* Every variable but call and ret is idle.
OnlyCall ==
    /\ reply = <<>>
    /\ cls = NoClassification
    /\ catalogFile = FreshCatalog
    /\ last = NoCmd
    /\ prev = NoCmd
    /\ nops = 0
    /\ NoScan

InitGateway ==
    /\ pc = "gateway"
    /\ call \in [is_claude : BOOLEAN, api_key : BOOLEAN, env_key : BOOLEAN,
                 exists : BOOLEAN, readable : BOOLEAN, file_size : FileSizes,
                 backup_model : BOOLEAN, transport : Transports]
    /\ call.readable => call.exists
    /\ ret = <<>>
    /\ OnlyCall

AnalyzeImage ==
    /\ pc = "gateway"
    /\ ret' = analyze_image(call)
    /\ pc' = "returned"
    /\ UNCHANGED <<call, clsVars, catVars, scanVars>>

SpecGateway == InitGateway /\ [][AnalyzeImage]_vars

(***************************************************************************)
(* The command line: main (src/recipe_cataloger.py).  A call is the        *)
(* parsed arguments with what they name on disk: file_count named image    *)
(* files and whether all exist; folder "none", "dir" or "missing";         *)
(* the flags list, l, random, check_only, output; delete "none", "valid"   *)
(* or "invalid" ordinals; whether the catalog path resolves to a file;     *)
(* append_to "none", "file" or "missing".  The rest is what the calls      *)
(* main makes come back with: whether the model is available, whether      *)
(* listing reassigned a chapter, the answer to the confirmation prompt,    *)
(* whether a random recipe was found, whether processing found recipes     *)
(* or chapters (for a folder: images).  The pipelines are taken not to     *)
(* raise here.                                                             *)
(***************************************************************************)
\* [exit, wrote]: the exit code of the process and the files written:
\* "catalog" (the catalog of -c), "append_to", "output" (the --output file
\* or the default result file).
Exit(code, wrote) == [exit |-> code, wrote |-> wrote]

\* The "Load existing catalog" block of main (lines 2186-2352).
CatalogCommand(c) ==
    LET relisted == IF (c.l \/ c.list) /\ c.reassigned THEN {"catalog"} ELSE {}
    IN  IF ~c.catalog_exists THEN Exit(1, {})
        ELSE IF c.l \/ c.list THEN Exit(0, relisted)
        ELSE IF c.delete # "none"
        THEN IF c.delete = "invalid" THEN Exit(1, {})
             ELSE IF c.confirm # "y" THEN Exit(0, {})
             ELSE Exit(0, {"catalog"})
        ELSE IF c.random_found THEN Exit(0, {}) ELSE Exit(1, {})

\* The file mode of main (lines 2354-2445): process_single_file and
\* process_multiple_files return {"error": ...} for a file that does not
\* exist, and main returns.
FileCommand(c) ==
    LET found == c.files_exist /\ c.has_results
    IN  IF c.append_to # "none"
        THEN Exit(0, IF found THEN {"append_to"} ELSE {})
        ELSE IF c.output THEN Exit(0, {"output"})
        ELSE Exit(0, {})

\* The folder mode of main (lines 2447-2503); process_cookbook_folder
\* writes its catalog unless it found no image.
FolderCommand(c) ==
    IF c.folder # "dir" THEN Exit(1, {})
    ELSE IF ~c.has_results THEN Exit(0, {})
    ELSE IF c.append_to # "none" THEN Exit(0, {"output", "append_to"})
    ELSE Exit(0, {"output"})

main(c) ==
    IF ~c.list /\ ~c.l /\ ~c.random /\ c.delete = "none" /\ ~c.model_available
    THEN Exit(1, {})
    ELSE IF c.check_only THEN Exit(0, {})
    ELSE IF c.random \/ c.list \/ c.l \/ c.delete # "none" THEN CatalogCommand(c)
    ELSE IF c.file_count > 0 THEN FileCommand(c)
    ELSE FolderCommand(c)

\* Command lines, with the inputs main does not read on their path fixed.
CommandLines ==
    { c \in [file_count : 0..2, files_exist : BOOLEAN, folder : {"none", "dir", "missing"},
             list : BOOLEAN, l : BOOLEAN, random : BOOLEAN, check_only : BOOLEAN,
             output : BOOLEAN, delete : {"none", "valid", "invalid"},
             catalog_exists : BOOLEAN, append_to : {"none", "file", "missing"},
             model_available : BOOLEAN, reassigned : BOOLEAN, confirm : {"y", "n"},
             random_found : BOOLEAN, has_results : BOOLEAN] :
        /\ c.file_count = 0 => c.files_exist
        /\ ~(c.l \/ c.list) => ~c.reassigned
        /\ c.delete # "valid" => c.confirm = "n"
        /\ ~c.random => ~c.random_found
        /\ ~c.catalog_exists => ~c.reassigned /\ c.delete # "valid" /\ ~c.random_found }

InitCli ==
    /\ pc = "cli"
    /\ call \in CommandLines
    /\ ret = <<>>
    /\ OnlyCall

Main ==
    /\ pc = "cli"
    /\ ret' = main(call)
    /\ pc' = "exited"
    /\ UNCHANGED <<call, clsVars, catVars, scanVars>>

SpecCli == InitCli /\ [][Main]_vars

(***************************************************************************)
(* Specification of the classifier: one reply, one classify_page call.     *)
(***************************************************************************)
InitClassify ==
    /\ pc = "classify"
    /\ reply \in Replies
    /\ cls = NoClassification
    /\ catalogFile = FreshCatalog
    /\ last = NoCmd
    /\ prev = NoCmd
    /\ nops = 0
    /\ NoScan
    /\ NoCall

ClassifyPage ==
    /\ pc = "classify"
    /\ cls' = classify_page(reply)
    /\ pc' = "classified"
    /\ UNCHANGED <<reply, catVars, scanVars, callVars>>

NextClassify == ClassifyPage

SpecClassify == InitClassify /\ [][NextClassify]_vars

\* A reply of plain prose: some text, none of it JSON.
IsProse(s) == s # NoReply /\ Len(s) > 0 /\ \A i \in 1..Len(s) : ~IsJson(s[i])

\* The prose says the word (in any letter case).
Says(s, word) == \E i \in 1..Len(s) : s[i].k = "word" /\ Lower(s[i].type) = word

\* C8 (as stated): a prose reply with no JSON classifies as type other,
\* confidence low, without an error, whatever words the prose contains.
C8_ProseIsOther ==
    (pc = "classified" /\ IsProse(reply)) =>
        (~cls.raised /\ cls.type = "other" /\ cls.confidence = "low")

\* C8 (amended): a prose reply with no JSON never raises and always gets
\* confidence low; its type is the first of chapter, recipe, article, photo
\* that the prose mentions, and other only when it mentions none of them.
C8_ProseFallback ==
    (pc = "classified" /\ IsProse(reply)) =>
        /\ ~cls.raised
        /\ cls.confidence = "low"
        /\ (cls.type = "chapter") = Says(reply, "chapter")
        /\ (cls.type = "recipe") = (Says(reply, "recipe") /\ ~Says(reply, "chapter"))
        /\ (cls.type = "article") =
              (Says(reply, "article") /\ ~Says(reply, "chapter") /\ ~Says(reply, "recipe"))
        /\ (cls.type = "photo") =
              (Says(reply, "photo") /\ ~Says(reply, "chapter") /\ ~Says(reply, "recipe")
                 /\ ~Says(reply, "article"))
        /\ (cls.type = "other") =
              (\A w \in {"chapter", "recipe", "article", "photo"} : ~Says(reply, w))

\* C8 witness: a prose reply that mentions a recipe, classified as recipe,
\* and one that mentions no page word, classified as other.
C8_Witness ==
    /\ pc = "classified"
    /\ IsProse(reply)
    /\ Says(reply, "recipe") /\ Says(reply, "photo")
    /\ cls.type = "recipe"

\* C9 (as stated): for every reply classify_page returns without raising,
\* with a type among the six page types and a confidence among high, medium,
\* low.
C9_ClassifyTotalAndTyped ==
    pc = "classified" =>
        (~cls.raised /\ cls.type \in PageTypes /\ cls.confidence \in Confidences)

(***************************************************************************)
(* Claims about the upsert engine and the index.                           *)
(***************************************************************************)
\* The incoming recipes of the last call that have a name, in order; the
\* log entries the call appended are aligned with them.
NamedNew == SelectSeq(last.new, LAMBDA r : NameTruthy(r.name))

LoggedByLast ==
    SubSeq(catalogFile.upsert_log, last.logBefore + 1, Len(catalogFile.upsert_log))

\* C3: when one upsert_recipes call is given the same named recipe twice in
\* its new_recipes list, both applications land on the same catalog entry
\* (exactly one entry for it) and the second is logged as updated or merged,
\* never as added.
C3_SameRecipeOneEntry ==
    (last.op = "upsert" /\ ~last.raised) =>
        \A i, j \in 1..Len(NamedNew) :
            (i < j /\ NamedNew[i] = NamedNew[j]) =>
                /\ last.at[i] = last.at[j]
                /\ LoggedByLast[j].action \in {"updated", "merged"}

\* C6: in every catalog state reached by folder processing, upsert, listing
\* with chapter reassignment, or deletion by ordinal, the stored index is the
\* value build_recipe_index returns for the stored recipes and chapters.
C6_StoredIndexIsBuilt ==
    catalogFile.index # NoIndex =>
        catalogFile.index = build_recipe_index(catalogFile.recipes, catalogFile.chapters).index

\* An advertised name matches an extracted recipe's name.
Extracted(listed_name, recipes) ==
    \E i \in 1..Len(recipes) :
        /\ NameTruthy(recipes[i].name)
        /\ fuzzy_match_names(listed_name, recipes[i].name)

\* C7: for a catalog with a built index, Index.unmatched holds exactly one
\* entry, with the advertised name and its chapter title, for each
\* chapter-advertised name that matches no extracted recipe's name, and no
\* entry for an advertised name that matches one.
C7_UnmatchedExact ==
    catalogFile.index.kind = "full" =>
        LET listed == Listed(catalogFile.chapters)
            unmatched == catalogFile.index.unmatched
            entries(n) == { k \in 1..Len(unmatched) :
                              normalize_recipe_name(unmatched[k].name) = normalize_recipe_name(n) }
        IN  \A i \in 1..Len(listed) :
                IF Extracted(listed[i].name, catalogFile.recipes)
                THEN entries(listed[i].name) = {}
                ELSE /\ Cardinality(entries(listed[i].name)) = 1
                     /\ \E k \in entries(listed[i].name) :
                           \E j \in 1..Len(listed) :
                               /\ unmatched[k] = listed[j]
                               /\ normalize_recipe_name(listed[j].name)
                                    = normalize_recipe_name(listed[i].name)

(***************************************************************************)
(* Claims about the page scan.                                             *)
(***************************************************************************)
PageB == Page(IsPartial, 0, TRUE, Yields(<<FragB>>), << MoreTok(<<>>, <<3, 4>>, TRUE) >>)

\* The two-page input [A, B]: A a recipe page whose one fragment has a
\* title, an ingredient, steps 1-2 and is cut off; B its continuation.
InputAB ==
    /\ Len(image_files) = 2
    /\ image_files[1].cls = IsRecipe
    /\ image_files[1].ext = Yields(<<FragA>>)
    /\ image_files[2] = PageB

Finished == pc \in {"done", "raised"}

\* C1: processing [A, B] in order, in the folder pipeline and in the
\* multi-file pipeline, ends with exactly one recipe, whose instructions are
\* steps 1, 2, 3, 4 in that order.
C1_TwoPagesOneRecipe ==
    (InputAB /\ Finished) =>
        /\ pc = "done"
        /\ Len(scan.recipes) = 1
        /\ scan.recipes[1].steps = <<1, 2, 3, 4>>

IsPrefix(a, b) == Len(a) <= Len(b) /\ SubSeq(b, 1, Len(a)) = a

\* The recipe is among the output recipes, as it was or extended.
Output(recipe) ==
    \E i \in 1..Len(scan.recipes) :
        /\ scan.recipes[i].name = recipe.name
        /\ IsPrefix(recipe.ings, scan.recipes[i].ings)
        /\ IsPrefix(recipe.steps, scan.recipes[i].steps)

\* C2: when the scan has reached the end of the input, every recipe that
\* became the pending recipe is among the output recipes (completed by a
\* later page or force-finalized); none was cleared, overwritten or skipped.
C2_PendingNeverLost ==
    pc = "done" => \A recipe \in scan.hist.pended : Output(recipe)

ContextNotes ==
    { NoContextNote,
      "Was marked as continuation but no previous context - saved as complete",
      "Was marked as continuation but no previous context" }

\* C4: when the scan has reached the end of the input, every fragment that
\* the extractor was given flagged is_continuation while no recipe was
\* pending is among the output recipes as a recipe of its own: with its own
\* lists only, complete, and with a note that there was no previous-page
\* context.
C4_OrphanStandalone ==
    pc = "done" =>
        \A fragment \in scan.hist.orphans :
            \E i \in 1..Len(scan.recipes) :
                /\ scan.recipes[i].name = fragment.name
                /\ scan.recipes[i].ings = fragment.ings
                /\ scan.recipes[i].steps = fragment.steps
                /\ scan.recipes[i].complete
                /\ scan.recipes[i].note \in ContextNotes

C10_ScanNeverRaises ==
    /\ pc # "raised"
    /\ pc = "done" =>
          /\ Len(scan.processing_log) = Len(image_files)
          /\ \A i \in 1..Len(image_files) : scan.processing_log[i].file = FileName(i)

(***************************************************************************)
(* Claims about the model gateway.                                         *)
(***************************************************************************)
\* The length of the base64 text of a file of n bytes.
Base64Len(n) == 4 * ((n + 2) \div 3)

\* A backend was sent the request and the request failed in transport.
TransportFailed ==
    ret.calls # <<>> /\ call.transport \in {"conn_error", "timeout", "http_404", "http_500"}

\* A hosted model was asked for without an API key.
MissingKey == call.is_claude /\ ~call.api_key

\* The image is too large for the hosted backend and there is no backup.
OversizeNoBackup ==
    /\ call.is_claude /\ call.api_key /\ call.exists
    /\ Base64Len(call.file_size) > max_size
    /\ ~call.backup_model

C12_BackupIffOversize ==
    (pc = "returned" /\ call.is_claude /\ call.api_key /\ call.exists /\ call.readable) =>
        /\ (ret.calls = <<"backup">>) <=>
              (Base64Len(call.file_size) > max_size /\ call.backup_model)
        /\ Base64Len(call.file_size) <= max_size => ret.calls = <<"claude">>
        /\ Len(ret.calls) <= 1

(***************************************************************************)
(* Claims about the command line.                                          *)
(***************************************************************************)
\* The command reads a catalog: --list, -l, --random or --delete.
CatalogMode == call.random \/ call.list \/ call.l \/ call.delete # "none"

\* A named image file, folder or catalog does not exist, or a delete
\* ordinal is out of range.
MissingInput ==
    \/ CatalogMode /\ ~call.catalog_exists
    \/ ~call.l /\ ~call.list /\ call.delete = "invalid"
    \/ ~CatalogMode /\ call.file_count > 0 /\ ~call.files_exist
    \/ ~CatalogMode /\ call.file_count = 0 /\ call.folder = "missing"

\* C13: a command (single file, multiple files, folder, list, random or
\* delete) that names an image file, folder or catalog that does not exist,
\* or deletes with an out-of-range ordinal, exits with code 1 and writes no
\* file.
C13_MissingInputExitsOne ==
    (pc = "exited" /\ ~call.check_only /\ MissingInput) =>
        ret.exit = 1 /\ ret.wrote = {}

(***************************************************************************)
(* Claims about upserting the same recipe again (SpecReupsert).            *)
(***************************************************************************)
\* The ingredient and instruction lists of the stored recipes.
StoredLists(catalog) ==
    [i \in 1..Len(catalog.recipes) |->
        <<catalog.recipes[i].ings, catalog.recipes[i].steps>>]

\* C14: once a recipe R has been upserted, upserting the identical R again
\* leaves the ingredient and instruction lists of the stored recipes as they
\* were after the first upsert, whatever the counts of the stored and the
\* incoming recipe, also when the first upsert merged.
C14_ReupsertKeepsLists ==
    [][(nops = 1 /\ nops' = 2 /\ ~last'.raised) =>
          StoredLists(catalogFile') = StoredLists(catalogFile)]_vars

(***************************************************************************)
(* Claims about fuzzy_match_names (SpecFuzzy).                             *)
(***************************************************************************)
IsPunct(c) == ~IsWordChar(LowerChar(c))

\* The names have the same letters at the same places, up to letter case,
\* and punctuation or a space wherever they differ otherwise (a hyphen for
\* a space, as in the design's example).
DifferInCaseAndPunctuation(a, b) ==
    /\ Len(a) = Len(b)
    /\ \A i \in 1..Len(a) :
          \/ LowerChar(a[i]) = LowerChar(b[i])
          \/ IsPunct(a[i]) /\ IsPunct(b[i])

\* C15 as stated: any two names that differ only in letter case and
\* punctuation match, and "Cilantro Lime Vinaigrette" does not match
\* "Lime Cilantro Dressing".
C15_CasePunctuationMatch ==
    pc = "matched" =>
        /\ DifferInCaseAndPunctuation(call.name1, call.name2) => ret.match
        /\ call.name2 = LimeCilantroDressing => ~ret.match

\* C15, amended: names whose normalized forms (lower-cased, punctuation
\* deleted, white space collapsed) are equal match, whatever their length;
\* "Cilantro Lime Vinaigrette" matches "cilantro-lime vinaigrette", whose
\* normalized form differs from its own, by the similarity ratio; it does
\* not match "Lime Cilantro Dressing".
C15_NormalizedEqualMatch ==
    pc = "matched" =>
        /\ normalize_recipe_name(call.name1) = normalize_recipe_name(call.name2)
              => ret.match
        /\ call.name2 = cilantro_lime_vinaigrette => ret.match
        /\ call.name2 = LimeCilantroDressing => ~ret.match

C15_Witness ==
    /\ pc = "matched"
    /\ call.name1 = CilantroLimeVinaigrette
    /\ call.name2 = cilantro_lime_vinaigrette
    /\ normalize_recipe_name(call.name1) # normalize_recipe_name(call.name2)
    /\ ret.match

(***************************************************************************)
(* Claims about --delete (SpecCatalog).                                    *)
(***************************************************************************)
\* The recipes that are not at one of the 1-based positions ords, in order.
RECURSIVE KeptFrom(_, _, _)
KeptFrom(recipes, ords, i) ==
    IF i > Len(recipes) THEN <<>>
    ELSE (IF \E k \in 1..Len(ords) : ords[k] = i THEN <<>> ELSE <<recipes[i]>>)
         \o KeptFrom(recipes, ords, i + 1)

\* A --delete command with in-range ordinals has just been answered.
DeleteAnswered ==
    /\ nops' = nops + 1
    /\ last'.ords # <<>>
    /\ \A k \in 1..Len(last'.ords) : last'.ords[k] <= Len(catalogFile.recipes)

\* C16: a confirmed --delete with in-range ordinals, repeated or not,
\* leaves exactly the recipes that were not at those positions, in their
\* order, and adds one deletion-log entry naming exactly the removed
\* recipes; any answer other than 'y' leaves the catalog as it was.
C16_DeleteExactlyThose ==
    [][DeleteAnswered =>
          IF last'.confirm = "y"
          THEN /\ ~last'.raised
               /\ catalogFile'.recipes = KeptFrom(catalogFile.recipes, last'.ords, 1)
               /\ Len(catalogFile'.deletion_log) = Len(catalogFile.deletion_log) + 1
               /\ LET deleted == catalogFile'.deletion_log[Len(catalogFile'.deletion_log)]
                  IN  /\ Len(deleted) = Cardinality({last'.ords[k] : k \in 1..Len(last'.ords)})
                      /\ {deleted[k] : k \in 1..Len(deleted)}
                            = {catalogFile.recipes[last'.ords[k]].name :
                                  k \in 1..Len(last'.ords)}
          ELSE catalogFile' = catalogFile]_vars

(***************************************************************************)
(* Claims about the attempts of extract_recipes (SpecExtract).             *)
(***************************************************************************)
\* C17: extract_recipes ends after at most max_retries + 1 prompt attempts
\* and at most one attempt on the enhanced image, whatever the model
\* answers; every pass of the loop, failed or not, uses up one attempt and
\* asks the next prompt.
C17_BoundedAttempts ==
    /\ [](pc = "extract" => ret.attempts <= call.max_retries + 1)
    /\ [][/\ pc = "extract" /\ pc' = "extract" => ret'.attempts = ret.attempts + 1
          /\ pc = "extract" /\ pc' = "extracted" =>
                ret'.attempts \in {ret.attempts, ret.attempts + 1}]_vars
    /\ <>(pc = "extracted")

\* Every prompt fails and the enhanced image is tried: max_retries + 1
\* attempts when there are that many prompts, and one more.
C17_Witness ==
    /\ pc = "extracted"
    /\ \A k \in 1..NumPrompts : call.responses[k] = NoReply
    /\ call.max_retries + 1 = NumPrompts
    /\ ret.attempts = call.max_retries + 2

\* The number of recipes in the retained result.
Retained(st) == Len(st.recipes) + (IF st.partial_recipe # NoEntry THEN 1 ELSE 0)

\* C18: no prompt attempt leaves the retained result with fewer recipes
\* (complete ones plus the partial one) than it had before the attempt.
C18_BestNeverWorse ==
    [][pc = "extract" /\ pc' = "extract" => Retained(ret') >= Retained(ret)]_vars

(***************************************************************************)
(* Claims about the matching order of upsert_recipes (SpecCatalog).        *)
(***************************************************************************)
\* How the incoming name matches the name of a stored recipe.
ExactMatch(name, stored) ==
    NameTruthy(stored) /\ normalize_recipe_name(name) = normalize_recipe_name(stored)

SubstringMatch(name, stored) ==
    /\ NameTruthy(stored)
    /\ ~ExactMatch(name, stored)
    /\ \/ IsSubstring(normalize_recipe_name(name), normalize_recipe_name(stored))
       \/ IsSubstring(normalize_recipe_name(stored), normalize_recipe_name(name))

RatioOnlyMatch(name, stored) ==
    /\ NameTruthy(stored)
    /\ ~ExactMatch(name, stored)
    /\ ~SubstringMatch(name, stored)
    /\ RatioAtLeast(normalize_recipe_name(name), normalize_recipe_name(stored),
                    ThresholdPct)

\* One named recipe has just been upserted.
UpsertedOne ==
    /\ nops' = nops + 1
    /\ last'.op = "upsert"
    /\ ~last'.raised
    /\ Len(last'.new) = 1
    /\ NameTruthy(last'.new[1].name)

\* C19: an incoming name with an exact normalized match lands on an exact
\* match; one with no exact match that is a substring match of a stored
\* recipe X and a ratio-only match of another stored recipe Y lands on a
\* substring match, wherever X and Y are in the catalog.
C19_SubstringBeforeRatio ==
    [][UpsertedOne =>
          LET name == last'.new[1].name
              stored == catalogFile.recipes
              at == last'.at[1]
              Some(M(_, _)) == \E i \in 1..Len(stored) : M(name, stored[i].name)
          IN  /\ Some(ExactMatch) => at <= Len(stored) /\ ExactMatch(name, stored[at].name)
              /\ ~Some(ExactMatch) /\ Some(SubstringMatch) /\ Some(RatioOnlyMatch) =>
                    at <= Len(stored) /\ SubstringMatch(name, stored[at].name)]_vars

(***************************************************************************)
(* Claims about the merge-or-replace decision (SpecReupsert).              *)
(***************************************************************************)
\* An incoming recipe has just been upserted onto the stored recipe.
UpsertedOnto ==
    /\ nops' = nops + 1
    /\ catalogFile.recipes # <<>>
    /\ ~last'.raised

\* What the upsert did with the stored recipe: merged, replaced or neither.
Merged ==
    /\ last'.merged = 1 /\ last'.updated = 0 /\ last'.added = 0
    /\ catalogFile'.recipes[1].ings = catalogFile.recipes[1].ings \o last'.new[1].ings
    /\ catalogFile'.recipes[1].steps = catalogFile.recipes[1].steps \o last'.new[1].steps

Replaced ==
    /\ last'.merged = 0 /\ last'.updated = 1 /\ last'.added = 0
    /\ catalogFile'.recipes[1].ings = last'.new[1].ings
    /\ catalogFile'.recipes[1].steps = last'.new[1].steps

\* C20 as stated: the upsert merges exactly when (oi > 0, os < 3, ns > os),
\* or (ni > 0, ns < 3, os > ns), or one side has ingredients and no
\* instructions while the other has instructions and no ingredients;
\* otherwise it replaces.
C20_MergeRuleOnlySides ==
    [][UpsertedOnto =>
          LET oi == Len(catalogFile.recipes[1].ings)
              os == Len(catalogFile.recipes[1].steps)
              ni == Len(last'.new[1].ings)
              ns == Len(last'.new[1].steps)
          IN  IF \/ oi > 0 /\ os < 3 /\ ns > os
                 \/ ni > 0 /\ ns < 3 /\ os > ns
                 \/ oi > 0 /\ os = 0 /\ ni = 0 /\ ns > 0
                 \/ ni > 0 /\ ns = 0 /\ oi = 0 /\ os > 0
              THEN Merged ELSE Replaced]_vars

\* C20, amended: the upsert merges exactly when (oi > 0, os < 3, ns > os),
\* or (ni > 0, ns < 3, os > ns), or both sides have instructions and
\* exactly one of them has ingredients; otherwise it replaces.
C20_MergeRule ==
    [][UpsertedOnto =>
          LET oi == Len(catalogFile.recipes[1].ings)
              os == Len(catalogFile.recipes[1].steps)
              ni == Len(last'.new[1].ings)
              ns == Len(last'.new[1].steps)
          IN  IF \/ oi > 0 /\ os < 3 /\ ns > os
                 \/ ni > 0 /\ ns < 3 /\ os > ns
                 \/ os > 0 /\ ns > 0 /\ (oi > 0) # (ni > 0)
              THEN Merged ELSE Replaced]_vars

\* A merge only the third case asks for: the stored recipe had ingredients
\* and 3 instructions, the incoming one no ingredients and 3 instructions.
C20_Witness ==
    /\ nops = 1
    /\ last.merged = 1
    /\ last.new[1].ings = <<>>
    /\ Len(last.new[1].steps) = 3
    /\ Len(catalogFile.recipes[1].steps) = 6
    /\ catalogFile.recipes[1].ings # <<>>

(***************************************************************************)
(* Claims about the audit log of upsert_recipes (SpecUpsert).              *)
(***************************************************************************)
\* The incoming recipe has a name.
IsNamed(recipe) == recipe.name # <<>> /\ recipe.name # NullName

\* The number of entries of a log with the given action.
RECURSIVE CountAction(_, _)
CountAction(log, action) ==
    IF log = <<>> THEN 0
    ELSE (IF Head(log).action = action THEN 1 ELSE 0) + CountAction(Tail(log), action)

\* C21: an upsert_recipes call that returns has appended one audit entry
\* per named incoming recipe, in order, with action added, updated or
\* merged, the recipe's name, a source image, and a previous source exactly
\* on updated and merged; the log grew by added + updated + merged, the
\* recipe list by added, and the earlier entries are as they were.
C21_OneEntryPerNamedRecipe ==
    [][(nops' = nops + 1 /\ last'.op = "upsert" /\ ~last'.raised) =>
          LET named == SelectSeq(last'.new, IsNamed)
              before == catalogFile.upsert_log
              after == catalogFile'.upsert_log
              entries == SubSeq(after, Len(before) + 1, Len(after))
          IN  /\ Len(after) >= Len(before)
              /\ SubSeq(after, 1, Len(before)) = before
              /\ Len(entries) = Len(named)
              /\ Len(entries) = last'.added + last'.updated + last'.merged
              /\ CountAction(entries, "added") = last'.added
              /\ CountAction(entries, "updated") = last'.updated
              /\ CountAction(entries, "merged") = last'.merged
              /\ Len(catalogFile'.recipes) = Len(catalogFile.recipes) + last'.added
              /\ \A j \in 1..Len(entries) :
                    /\ entries[j].action \in {"added", "updated", "merged"}
                    /\ entries[j].recipe_name = named[j].name
                    /\ entries[j].source_image \in {"files", OrNone(named[j].src)}
                    /\ entries[j].action = "added" <=> entries[j].previous_source = Absent]_vars

\* A call with an unnamed recipe among three that added one and updated or
\* merged another.
C21_Witness ==
    /\ last.op = "upsert"
    /\ ~last.raised
    /\ Len(last.new) = 3
    /\ \E j \in 1..3 : last.new[j].name = <<>>
    /\ last.added = 1
    /\ last.updated + last.merged = 1
    /\ Len(catalogFile.upsert_log) = 2

(***************************************************************************)
(* Claims about continuation pages in the page scan (SpecScan).            *)
(***************************************************************************)
\* The scan has just handled a page classified recipe_partial while a
\* recipe was pending.
ContinuationPage ==
    /\ pc \in {"folder", "files"}
    /\ page_no' = page_no + 1
    /\ scan.pending_recipe # NoneRecipe
    /\ classify_page(image_files[page_no + 1].cls).type = "recipe_partial"
    /\ ~scan'.raised

\* C22: on a page classified recipe_partial with a recipe pending, no fresh
\* recipe extraction is run (no fragment of an extraction reply is taken
\* in), and afterwards the pending recipe has either been promoted to a
\* completed recipe or is still the pending recipe, in both pipelines.
C22_PartialPageOnlyContinues ==
    [][ContinuationPage =>
          /\ scan'.hist.fed = scan.hist.fed
          /\ \/ /\ scan'.pending_recipe = NoneRecipe
                /\ Len(scan'.recipes) = Len(scan.recipes) + 1
                /\ scan'.recipes[Len(scan'.recipes)].name = scan.pending_recipe.name
             \/ /\ scan'.pending_recipe # NoneRecipe
                /\ scan'.pending_recipe.name = scan.pending_recipe.name
                /\ scan'.recipes = scan.recipes]_vars

(***************************************************************************)
(* Claims about merging a continuation (SpecContinue).                     *)
(***************************************************************************)
\* C23: the merged recipe has, in each list field, the pending recipe's
\* items followed by the continuation's; a scalar field that was not null
\* on the pending recipe keeps its value; the name is the pending
\* recipe's - after merge_recipes and after extract_partial_recipe.
C23_MergeKeepsFirst ==
    pc = "continued" =>
        LET pending == call.pending_recipe
            more == call.continuation
        IN  /\ ret.r.ings = pending.r.ings \o more.r.ings
            /\ ret.r.steps = pending.r.steps \o more.r.steps
            /\ ret.tips = pending.tips \o more.tips
            /\ pending.serves # Null => ret.serves = pending.serves
            /\ pending.nutrition_full # Null => ret.nutrition_full = pending.nutrition_full
            /\ ret.r.name = pending.r.name

(***************************************************************************)
(* Claims about the attempt on the enhanced image (SpecExtract).           *)
(***************************************************************************)
\* C24: the attempt on the enhanced image is made only when the attempts
\* before it retained no recipe, complete or partial; a partial recipe
\* retained before it is still the partial recipe returned; and no fragment
\* flagged incomplete is returned among the complete recipes.
C24_EnhancedOnlyWhenNothingFound ==
    [][pc = "extract" /\ pc' = "extracted" =>
          /\ ret'.attempts = ret.attempts + 1 => Retained(ret) = 0
          /\ ret.partial_recipe # NoEntry => ret'.partial_recipe = ret.partial_recipe
          /\ \A i \in 1..Len(ret'.recipes) : ret'.recipes[i].r.complete # FALSE]_vars

(***************************************************************************)
(* Claims about replacing a stored recipe (SpecReupsert).                  *)
(***************************************************************************)
\* C25: an upsert that matches the stored recipe, whether it replaces it or
\* merges into it, leaves it with at least as many ingredients and at least
\* as many instructions as it had.
C25_UpsertNeverLowersCounts ==
    [][(/\ nops' = nops + 1
        /\ ~last'.raised
        /\ last'.updated + last'.merged = 1
        /\ Len(catalogFile.recipes) = 1) =>
          /\ Len(catalogFile'.recipes) = 1
          /\ Len(catalogFile'.recipes[1].ings) >= Len(catalogFile.recipes[1].ings)
          /\ Len(catalogFile'.recipes[1].steps) >= Len(catalogFile.recipes[1].steps)]_vars

(***************************************************************************)
(* Claims about page_analyzer (SpecAnalyze).                               *)
(***************************************************************************)
\* How many times the file is in the list.
Occurrences(file, list) == Cardinality({ i \in 1..Len(list) : list[i] = file })

\* C26: whatever the processing log, each logged page is at most once in
\* the list of files selected for reprocessing (failed_files, then
\* partial_only, then the low-confidence pages when they are included), and
\* no page is in both failed_files and partial_only.
C26_SelectedOnce ==
    ret.runs > 0 =>
        \A k \in 1..Len(ret.processing_log) :
            LET file == ret.processing_log[k].file
            IN  /\ Occurrences(file, ret.files_to_reprocess) <= 1
                /\ ~(InList(file, ret.analysis.failed_files)
                       /\ InList(file, ret.analysis.partial_only))

\* C30: a file that a run reprocessed with success (re-extracted and
\* upserted into the catalog) is not selected by the next analysis.
C30_ReprocessedNotSelectedAgain ==
    [][ret'.runs = ret.runs + 1 =>
          \A i \in 1..Len(ret.files_to_reprocess) :
              ret.outcome[i] = "upserted" =>
                  ~InList(ret.files_to_reprocess[i], ret'.files_to_reprocess)]_vars

(***************************************************************************)
(* Claims about extract_recipes and the pending recipe (SpecPending).      *)
(***************************************************************************)
\* The continuation fragments of the replies.
ContinuationFragments ==
    { call.responses[k][1].recipes.items[j] :
        <<k, j>> \in { kj \in (1..MaxAttempts) \X (1..2) :
                         /\ kj[1] \in DOMAIN call.responses
                         /\ call.responses[kj[1]] # NoReply
                         /\ kj[2] \in DOMAIN call.responses[kj[1]][1].recipes.items
                         /\ call.responses[kj[1]][1].recipes.items[kj[2]].cont } }

\* The recipe is the pending recipe with one continuation fragment's items
\* after its own.
MergedOnce(recipe) ==
    \E fragment \in ContinuationFragments :
        /\ recipe.ings = call.pending_recipe.ings \o fragment.ings
        /\ recipe.steps = call.pending_recipe.steps \o fragment.steps

\* C27: after extract_recipes the pending recipe passed to it is as it
\* was, and a merged recipe in the result (the recipe of page p1) has the
\* pending recipe's ingredients and instructions followed by those of one
\* continuation fragment, once.
C27_PendingUntouchedMergedOnce ==
    (pc = "returned" /\ ~ret.raised /\ call.pending_recipe # NoneRecipe) =>
        /\ ret.pending = call.pending_recipe
        /\ \A i \in 1..Len(ret.recipes) :
              ret.recipes[i].src = "p1" => MergedOnce(ret.recipes[i])
        /\ (ret.partial_recipe # NoneRecipe /\ ret.partial_recipe.src = "p1") =>
              MergedOnce(ret.partial_recipe)

\* The returned recipes, the partial one included.
ReturnedRecipes ==
    { ret.recipes[i] : i \in 1..Len(ret.recipes) }
    \cup (IF ret.partial_recipe = NoneRecipe THEN {} ELSE {ret.partial_recipe})

\* C28: after a call with one attempt, every fragment of the reply is in
\* the result, among the recipes or as the partial recipe: a new recipe
\* under its name, a continuation of the pending recipe merged into the
\* recipe of page p1 - also when two fragments of the reply are incomplete.
C28_NoFragmentLost ==
    (pc = "returned" /\ ~ret.raised /\ Len(call.responses) = 1
       /\ call.responses[1] # NoReply) =>
        \A j \in DOMAIN call.responses[1][1].recipes.items :
            LET fragment == call.responses[1][1].recipes.items[j]
            IN  \E recipe \in ReturnedRecipes :
                    IF fragment.cont /\ call.pending_recipe # NoneRecipe
                    THEN recipe.src = "p1"
                    ELSE recipe.name = fragment.name

(***************************************************************************)
(* Claims about recipes without a name (SpecNames).                        *)
(***************************************************************************)
\* The name is missing, empty, or normalizes to the empty string.
EmptyName(name) == name # NullName /\ normalize_recipe_name(name) = <<>>

\* The names the chapters of the catalog list.
ListedNames(catalog) ==
    { catalog.chapters[c].list[k] :
        <<c, k>> \in { ck \in (1..Len(catalog.chapters)) \X (1..2) :
                         ck[2] \in DOMAIN catalog.chapters[ck[1]].list } }

\* C29: a catalog recipe whose name is missing, empty or normalizes to
\* the empty string matches no name.  After an upsert, a name a chapter
\* lists that matches none of the catalog's other recipes is in the
\* index's unmatched list; --list moves no such recipe to a chapter; and an
\* upsert of recipes whose names normalize to the empty string leaves the
\* stored recipes that have a name as they were.
C29_EmptyNameMatchesNothing ==
    [][/\ (nops' = nops + 1 /\ last'.op = "upsert" /\ ~last'.raised) =>
            /\ \A listed \in ListedNames(catalogFile') :
                  (\A i \in 1..Len(catalogFile'.recipes) :
                      \/ EmptyName(catalogFile'.recipes[i].name)
                      \/ ~fuzzy_match_names(listed, catalogFile'.recipes[i].name))
                  => \E k \in 1..Len(catalogFile'.index.unmatched) :
                        catalogFile'.index.unmatched[k].name = listed
            /\ (\A j \in 1..Len(last'.new) : EmptyName(last'.new[j].name)) =>
                  \A i \in 1..Len(catalogFile.recipes) :
                      ~EmptyName(catalogFile.recipes[i].name) =>
                          /\ catalogFile'.recipes[i].name = catalogFile.recipes[i].name
                          /\ catalogFile'.recipes[i].ings = catalogFile.recipes[i].ings
                          /\ catalogFile'.recipes[i].steps = catalogFile.recipes[i].steps
       /\ (nops' = nops + 1 /\ last'.op = "list" /\ ~last'.raised) =>
            \A i \in 1..Len(catalogFile.recipes) :
                EmptyName(catalogFile.recipes[i].name) =>
                    catalogFile'.recipes[i].chapter = catalogFile.recipes[i].chapter]_vars

====
